---- MODULE Spec2Model ----
(***************************************************************************)
(* Model of hue-tui's real-time state reconciliation: the pending-operation *)
(* tracker (internal/tui/pending.go), the light/room model, the message     *)
(* loop that applies bridge events and local key presses to it, the bridge  *)
(* command tasks and the event subscription that feeds the loop.            *)
(***************************************************************************)
EXTENDS Integers, Sequences, FiniteSets, TLC

VARIABLES
    now,        \* time.Now(), in seconds
    ops,        \* PendingTracker.ops: key -> PendingOp (DOMAIN = keys present)
    last,       \* the tracker call made by the latest step, with its result
    overshot,   \* keys whose entry an overshoot deleted, not registered since
    lights,     \* the Light objects of Model.rooms, by light id
    rooms,      \* Model.rooms: the Room objects, in order
    selectedIndex,  \* MainModel.selectedIndex, an index into MainModel.items
    cmd,        \* the bridge commands the latest Update returned
    keys,       \* key presses handled that issued a bridge command
    events,     \* LightUpdateMsg handled
    scn,        \* progress of the three-presses-four-echoes scenario, -1 = left
    scnWrote,   \* an echo of the scenario wrote the light's brightness
    err,        \* Model.err, "" = nil
    loading,    \* MainModel.loading
    failed,     \* ErrorMsg values returned by command tasks, not yet handled
    handled,    \* what the latest step of the loop handled, with its inputs
    sub,        \* the EventSubscription: its fields and where its run task is
    ctxDone,    \* Model.ctx is cancelled
    deliveries, \* the deliverBatch calls in progress, each with the batch it took
    eventChan,  \* Model.eventChan
    inflight,   \* the message listenForEvents received, not yet handled
    lineNo,     \* events the bridge has written to the stream and run has read
    processed,  \* the stream events Update has handled, in order
    waited,     \* the run task sat out the 5 s wait since it last began to
                \* connect; TRUE before its first attempt
    scanned,    \* the payload readLoop processed last and what parseMessage
                \* returned for it
    config,     \* the Config: Bridges and LastBridgeID
    configCall, \* the latest call on the Config, with the Bridges before it
    started,    \* Model.events != nil
    listeners   \* the listenForEvents commands waiting on eventChan

trackerVars == <<last, overshot>>
uiVars == <<err, loading, failed>>
modelVars == <<lights, rooms, selectedIndex, cmd, keys, events, scn, scnWrote,
               err, loading, failed, handled>>
streamVars == <<sub, ctxDone, deliveries, eventChan, inflight, lineNo, processed, waited>>
configVars == <<config, configCall>>
listenVars == <<started, listeners>>
loopVars == <<now, ops, last, overshot, lights, rooms, selectedIndex, cmd,
              keys, events, scn, scnWrote, err, loading, failed, handled>>
vars == <<now, ops, last, overshot, lights, rooms, selectedIndex, cmd,
          keys, events, scn, scnWrote, err, loading, failed, handled, streamVars,
          scanned, configVars, listenVars>>


(***************************************************************************)
(* Bounds of the model.                                                     *)
(***************************************************************************)
MaxTime == 7        \* the clock stops here
MaxAddTime == 1     \* registrations happen at or before this time
MaxVal == 2         \* numeric targets and incoming values are 0..MaxVal
MaxKeys == 3        \* key presses that issue a bridge command
MaxEvents == 4      \* LightUpdateMsg the loop handles
MaxFields == 2      \* fields present in one LightUpdateMsg
MaxErrors == 1      \* ErrorMsg values waiting to be handled
MaxHouseSteps == 2  \* keys and events handled in the three-room model
MaxConfigCalls == 4  \* calls made on the Config
MaxColorSteps == 4  \* keys and events handled in the color model
MaxLines == 2       \* events the bridge writes to the stream

(***************************************************************************)
(* internal/tui/pending.go                                                  *)
(***************************************************************************)
pendingOpExpiry == 5

DirExact == 0
DirUp == 1
DirDown == 2
Direction == {DirExact, DirUp, DirDown}

\* interface{} values the callers hand to the tracker: bool, int and the
\* anonymous struct{ X, Y float64 }.  XY components are in millionths.
BoolV(b) == [t |-> "bool", b |-> b, n |-> 0, x |-> 0, y |-> 0]
IntV(n) == [t |-> "int", b |-> FALSE, n |-> n, x |-> 0, y |-> 0]
XYV(x, y) == [t |-> "xy", b |-> FALSE, n |-> 0, x |-> x, y |-> y]

PendingOp(field, target, dir, expiresAt) ==
    [Field |-> field, Target |-> target, Direction |-> dir, ExpiresAt |-> expiresAt]

NewPendingTracker == << >>

\* Mutant of the map key: the light alone.
Key_LightOnly(lightID, field) == lightID

Key(lightID, field) == lightID \o ":" \o field

\* m[key] = op
MapPut(m, key, op) == [k \in DOMAIN m \cup {key} |-> IF k = key THEN op ELSE m[k]]

\* delete(m, key)
MapDelete(m, key) == [k \in DOMAIN m \ {key} |-> m[k]]

\* Mutant of After: receiver and argument swapped.
After_Swapped(t, u) == u > t

\* time.Now().After(op.ExpiresAt)
After(t, u) == t > u

toFloat64(v) == IF v.t = "int" THEN v.n ELSE 0

compareValues(a, b) ==
    IF toFloat64(a) < toFloat64(b) THEN -1
    ELSE IF toFloat64(a) > toFloat64(b) THEN 1
    ELSE 0

valuesEqual(a, b) ==
    CASE a.t = "bool" -> b.t = "bool" /\ a.b = b.b
      [] a.t = "int" -> toFloat64(a) = toFloat64(b)
      [] a.t = "xy" -> b.t = "xy" /\ a.x = b.x /\ a.y = b.y
      [] OTHER -> FALSE

\* Mutant of AddWithDirection: an existing entry is kept.
AddWithDirection_KeepsExisting(m, t, lightID, field, target, dir) ==
    IF Key(lightID, field) \in DOMAIN m THEN m
    ELSE MapPut(m, Key(lightID, field), PendingOp(field, target, dir, t + pendingOpExpiry))

\* The map AddWithDirection leaves behind.
AddWithDirection(m, t, lightID, field, target, dir) ==
    MapPut(m, Key(lightID, field), PendingOp(field, target, dir, t + pendingOpExpiry))

Add(m, t, lightID, field, value) ==
    AddWithDirection(m, t, lightID, field, value, DirExact)

\* Mutant of ShouldIgnoreDirExact: a match does not clear the entry.
ShouldIgnoreDirExact_KeepsOnMatch(m, key, op, value) ==
    [ret |-> valuesEqual(op.Target, value), ops |-> m]

\* Mutant of ShouldIgnoreDirExact: a mismatch clears the entry.
ShouldIgnoreDirExact_DeletesOnMismatch(m, key, op, value) ==
    [ret |-> valuesEqual(op.Target, value), ops |-> MapDelete(m, key)]

\* case DirExact of ShouldIgnore, for the entry op found under key
ShouldIgnoreDirExact(m, key, op, value) ==
    IF valuesEqual(op.Target, value)
    THEN [ret |-> TRUE, ops |-> MapDelete(m, key)]
    ELSE [ret |-> FALSE, ops |-> m]

\* Mutant of ShouldIgnoreDirUp: the target itself counts as an overshoot.
ShouldIgnoreDirUp_StrictBelow(m, key, op, value) ==
    IF compareValues(value, op.Target) < 0
    THEN [ret |-> TRUE, ops |-> m]
    ELSE [ret |-> FALSE, ops |-> MapDelete(m, key)]

\* Mutant of ShouldIgnoreDirUp: an overshoot does not clear the entry.
ShouldIgnoreDirUp_KeepsOnOvershoot(m, key, op, value) ==
    LET cmp == compareValues(value, op.Target) IN
    IF cmp <= 0
    THEN [ret |-> TRUE, ops |-> IF cmp = 0 THEN MapDelete(m, key) ELSE m]
    ELSE [ret |-> FALSE, ops |-> m]

\* case DirUp of ShouldIgnore
ShouldIgnoreDirUp(m, key, op, value) ==
    LET cmp == compareValues(value, op.Target) IN
    IF cmp <= 0
    THEN [ret |-> TRUE, ops |-> IF cmp = 0 THEN MapDelete(m, key) ELSE m]
    ELSE [ret |-> FALSE, ops |-> MapDelete(m, key)]

\* Mutant of ShouldIgnoreDirDown: every value at or above the target clears
\* the entry.
ShouldIgnoreDirDown_ClearsEnRoute(m, key, op, value) ==
    IF compareValues(value, op.Target) >= 0
    THEN [ret |-> TRUE, ops |-> MapDelete(m, key)]
    ELSE [ret |-> FALSE, ops |-> MapDelete(m, key)]

\* case DirDown of ShouldIgnore
ShouldIgnoreDirDown(m, key, op, value) ==
    LET cmp == compareValues(value, op.Target) IN
    IF cmp >= 0
    THEN [ret |-> TRUE, ops |-> IF cmp = 0 THEN MapDelete(m, key) ELSE m]
    ELSE [ret |-> FALSE, ops |-> MapDelete(m, key)]

\* ShouldIgnore: [ret, ops] = the returned bool and the map left behind.
ShouldIgnore(m, t, lightID, field, value) ==
    LET key == Key(lightID, field) IN
    IF key \notin DOMAIN m THEN [ret |-> FALSE, ops |-> m]
    ELSE LET op == m[key] IN
    IF After(t, op.ExpiresAt) THEN [ret |-> FALSE, ops |-> MapDelete(m, key)]
    ELSE CASE op.Direction = DirExact -> ShouldIgnoreDirExact(m, key, op, value)
           [] op.Direction = DirUp -> ShouldIgnoreDirUp(m, key, op, value)
           [] op.Direction = DirDown -> ShouldIgnoreDirDown(m, key, op, value)
           [] OTHER -> [ret |-> FALSE, ops |-> m]

MatchesAndClear(m, t, lightID, field, value) == ShouldIgnore(m, t, lightID, field, value)

\* Mutant of HasPending: a found entry is consumed.
HasPending_Consumes(m, t, lightID, field) ==
    LET key == Key(lightID, field) IN
    [ret |-> key \in DOMAIN m /\ ~After(t, m[key].ExpiresAt), ops |-> MapDelete(m, key)]

\* HasPending is called by Model.Update and by the tests; its body is not in
\* the source tree.  Existence after lazy eviction, the entry is not consumed.
HasPending(m, t, lightID, field) ==
    LET key == Key(lightID, field) IN
    IF key \notin DOMAIN m THEN [ret |-> FALSE, ops |-> m]
    ELSE IF After(t, m[key].ExpiresAt) THEN [ret |-> FALSE, ops |-> MapDelete(m, key)]
    ELSE [ret |-> TRUE, ops |-> m]

\* Cleanup: the map without its expired entries.
Cleanup(m, t) ==
    [k \in {j \in DOMAIN m : ~After(t, m[j].ExpiresAt)} |-> m[k]]

(***************************************************************************)
(* Inputs of the tracker: the lights, the fields and the values the callers *)
(* pass for each field.                                                     *)
(***************************************************************************)
TrackerLights == {"l1"}
Fields == {"on", "brightness", "color_xy"}

NumVals == {IntV(n) : n \in 0..MaxVal}

\* The chromaticities of TestPendingTracker_ColorXY_ApproximateMatch and
\* TestPendingTracker_ColorXY_RapidChanges.
XYVals == {XYV(163800, 83500), XYV(163766, 83500), XYV(410000, 180000)}

FieldValues(f) ==
    CASE f = "on" -> {BoolV(TRUE), BoolV(FALSE)}
      [] f = "brightness" -> NumVals
      [] f = "color_xy" -> XYVals

FieldDirections(f) ==
    IF f = "brightness" THEN Direction ELSE {DirExact}

NoOp == PendingOp("", IntV(0), DirExact, 0)

NoCall == [fn |-> "none", light |-> "", field |-> "", value |-> IntV(0),
           dir |-> DirExact, ret |-> FALSE, had |-> FALSE, pre |-> NoOp,
           wasOvershot |-> FALSE]

\* The record of a call on (lightID, field) made in the current state.
Call(fn, lightID, field, value, dir, ret) ==
    [fn |-> fn, light |-> lightID, field |-> field, value |-> value, dir |-> dir,
     ret |-> ret,
     had |-> Key(lightID, field) \in DOMAIN ops,
     pre |-> IF Key(lightID, field) \in DOMAIN ops THEN ops[Key(lightID, field)] ELSE NoOp,
     wasOvershot |-> Key(lightID, field) \in overshot]

\* The incoming value v lies beyond the target of the unexpired directional
\* entry op.
Overshoots(op, t, v) ==
    /\ t <= op.ExpiresAt
    /\ \/ op.Direction = DirUp /\ v.n > op.Target.n
       \/ op.Direction = DirDown /\ v.n < op.Target.n

InitTracker ==
    /\ now = 0
    /\ ops = NewPendingTracker
    /\ last = NoCall
    /\ overshot = {}

DoAddWithDirection(l, f, v, d) ==
    /\ now <= MaxAddTime
    /\ ops' = AddWithDirection(ops, now, l, f, v, d)
    /\ last' = Call("AddWithDirection", l, f, v, d, FALSE)
    /\ overshot' = overshot \ {Key(l, f)}
    /\ UNCHANGED <<listenVars, configVars, scanned, streamVars, now, modelVars>>

DoShouldIgnore(l, f, v) ==
    LET r == ShouldIgnore(ops, now, l, f, v)
        key == Key(l, f)
    IN  /\ ops' = r.ops
        /\ last' = Call("ShouldIgnore", l, f, v, DirExact, r.ret)
        /\ overshot' = IF key \in DOMAIN ops /\ Overshoots(ops[key], now, v)
                       THEN overshot \cup {key} ELSE overshot
        /\ UNCHANGED <<listenVars, configVars, scanned, streamVars, now, modelVars>>

DoHasPending(l, f) ==
    LET r == HasPending(ops, now, l, f) IN
        /\ ops' = r.ops
        /\ last' = Call("HasPending", l, f, IntV(0), DirExact, r.ret)
        /\ UNCHANGED <<listenVars, configVars, scanned, streamVars, now, overshot, modelVars>>

DoCleanup ==
    /\ ops' = Cleanup(ops, now)
    /\ last' = [NoCall EXCEPT !.fn = "Cleanup"]
    /\ UNCHANGED <<listenVars, configVars, scanned, streamVars, now, overshot, modelVars>>

Tick ==
    /\ now < MaxTime
    /\ now' = now + 1
    /\ last' = [NoCall EXCEPT !.fn = "Tick"]
    /\ UNCHANGED <<listenVars, configVars, scanned, streamVars, ops, overshot, modelVars>>

(***************************************************************************)
(* The light and room model (package models).                               *)
(***************************************************************************)
ColorModeNone == 0
ColorModeColorTemp == 1
ColorModeHS == 2
ColorModeXY == 3

\* *Color: nil, or the fields of Color.  X and Y are in millionths.
NilColor == [nil |-> TRUE, Hue |-> 0, Saturation |-> 0, Brightness |-> 0,
             Mirek |-> 0, X |-> 0, Y |-> 0, Mode |-> ColorModeNone,
             cached |-> <<0, 0, 0>>, cacheValid |-> FALSE]

\* &models.Color{}
ZeroColor == [NilColor EXCEPT !.nil = FALSE]

NewColorFromXY(x, y, brightness) ==
    [ZeroColor EXCEPT !.X = x, !.Y = y, !.Brightness = brightness, !.Mode = ColorModeXY]

NewColorFromMirek(mirek, brightness) ==
    [ZeroColor EXCEPT !.Mirek = mirek, !.Brightness = brightness,
                      !.Mode = ColorModeColorTemp]

Light(on, brightness, color, supportsColor, supportsColorTemp) ==
    [On |-> on, Brightness |-> brightness, Color |-> color,
     SupportsColor |-> supportsColor, SupportsColorTemp |-> supportsColorTemp]

\* int(float64(l.Brightness) / 254.0 * 100): the quotient is exact at 0, 127
\* and 254 and at least 1/127 away from an integer elsewhere, so the float
\* result truncates to the integer quotient.
BrightnessPct(l) == (l.Brightness * 100) \div 254

\* uint8(float64(pct) / 100.0 * 254) after clamping pct to 0..100
SetBrightnessPct(l, pct) ==
    LET c == IF pct < 0 THEN 0 ELSE IF pct > 100 THEN 100 ELSE pct IN
    [l EXCEPT !.Brightness = (c * 254) \div 100]

None == << >>
Some(x) == <<x>>

\* lightResource.toModel: the Light built from a bridge resource with on
\* state on, dimming percentage dimming, and optional color xy and mirek.
toModel(on, dimming, xy, mirek) ==
    LET b == (dimming * 254) \div 100
        cb == IF b = 0 THEN 254 ELSE b
        color == IF xy # None THEN NewColorFromXY(xy[1][1], xy[1][2], cb)
                 ELSE IF mirek # None THEN NewColorFromMirek(mirek[1], cb)
                 ELSE NilColor
    IN  Light(on, b, color, xy # None, mirek # None)

Range(s) == {s[i] : i \in 1..Len(s)}

\* A Room as GetRooms builds it, before UpdateState.
Room(id, roomLights, groupedLightID) ==
    [ID |-> id, Lights |-> roomLights, GroupedLightID |-> groupedLightID,
     AllOn |-> FALSE, AnyOn |-> FALSE]

\* Room.UpdateState: AllOn and AnyOn of room r recomputed from its lights in ls.
UpdateState(r, ls) ==
    IF Len(r.Lights) = 0 THEN [r EXCEPT !.AllOn = FALSE, !.AnyOn = FALSE]
    ELSE [r EXCEPT !.AllOn = \A i \in 1..Len(r.Lights) : ls[r.Lights[i]].On,
                   !.AnyOn = \E i \in 1..Len(r.Lights) : ls[r.Lights[i]].On]

\* The ids of the lights of Model.rooms.
LightIDs == UNION {Range(rooms[i].Lights) : i \in 1..Len(rooms)}

(***************************************************************************)
(* Model.Update, case messages.LightUpdateMsg.                              *)
(***************************************************************************)
LightUpdateMsg(id, on, brightness, colorTemp, colorXY) ==
    [LightID |-> id, On |-> on, Brightness |-> brightness, ColorTemp |-> colorTemp,
     ColorXY |-> colorXY]

\* findLightByID(id) != nil
LightFound(id) == id \in LightIDs

\* The on field of the message: [light, ops, applied].
UpdateOn(l, m, t, msg) ==
    IF msg.On = None THEN [light |-> l, ops |-> m, applied |-> {}]
    ELSE LET r == MatchesAndClear(m, t, msg.LightID, "on", BoolV(msg.On[1])) IN
         IF ~r.ret
         THEN [light |-> [l EXCEPT !.On = msg.On[1]], ops |-> r.ops, applied |-> {"on"}]
         ELSE [light |-> l, ops |-> r.ops, applied |-> {}]

\* The mutant of UpdateBrightness that drops the pending brightness entry
\* when the message has no brightness.
UpdateBrightness_ClearsWhenAbsent(l, m, t, msg) ==
    IF msg.Brightness = None
    THEN [light |-> l, ops |-> MapDelete(m, Key(msg.LightID, "brightness")), applied |-> {}]
    ELSE LET r == MatchesAndClear(m, t, msg.LightID, "brightness", IntV(msg.Brightness[1])) IN
         IF ~r.ret
         THEN [light |-> SetBrightnessPct(l, msg.Brightness[1]), ops |-> r.ops,
               applied |-> {"brightness"}]
         ELSE [light |-> l, ops |-> r.ops, applied |-> {}]

\* The brightness field of the message.
UpdateBrightness(l, m, t, msg) ==
    IF msg.Brightness = None THEN [light |-> l, ops |-> m, applied |-> {}]
    ELSE LET r == MatchesAndClear(m, t, msg.LightID, "brightness", IntV(msg.Brightness[1])) IN
         IF ~r.ret
         THEN [light |-> SetBrightnessPct(l, msg.Brightness[1]), ops |-> r.ops,
               applied |-> {"brightness"}]
         ELSE [light |-> l, ops |-> r.ops, applied |-> {}]

\* The mutant of UpdateColorTemp that hands an out-of-range value to the
\* ordinary rule.
UpdateColorTemp_NoRangeCheck(l, m, t, msg, hasPendingColorXY) ==
    IF msg.ColorTemp = None THEN [light |-> l, ops |-> m, applied |-> {}]
    ELSE IF hasPendingColorXY THEN [light |-> l, ops |-> m, applied |-> {}]
    ELSE LET r == MatchesAndClear(m, t, msg.LightID, "color_temp", IntV(msg.ColorTemp[1])) IN
         IF ~r.ret
         THEN [light |-> [l EXCEPT !.Color = [(IF l.Color.nil THEN ZeroColor ELSE l.Color)
                              EXCEPT !.Mirek = msg.ColorTemp[1],
                                     !.Mode = ColorModeColorTemp,
                                     !.cacheValid = FALSE]],
               ops |-> r.ops, applied |-> {"color_temp"}]
         ELSE [light |-> l, ops |-> r.ops, applied |-> {}]

\* The mutant of UpdateColorTemp that does not look at the color_xy flag.
UpdateColorTemp_IgnoresXYFlag(l, m, t, msg, hasPendingColorXY) ==
    IF msg.ColorTemp = None THEN [light |-> l, ops |-> m, applied |-> {}]
    ELSE IF msg.ColorTemp[1] < 153 \/ msg.ColorTemp[1] > 500
         THEN [light |-> l, ops |-> m, applied |-> {}]
    ELSE LET r == MatchesAndClear(m, t, msg.LightID, "color_temp", IntV(msg.ColorTemp[1])) IN
         IF ~r.ret
         THEN [light |-> [l EXCEPT !.Color = [(IF l.Color.nil THEN ZeroColor ELSE l.Color)
                              EXCEPT !.Mirek = msg.ColorTemp[1],
                                     !.Mode = ColorModeColorTemp,
                                     !.cacheValid = FALSE]],
               ops |-> r.ops, applied |-> {"color_temp"}]
         ELSE [light |-> l, ops |-> r.ops, applied |-> {}]

\* The color_temp field, with the flag hasPendingColorXY read before it.
UpdateColorTemp(l, m, t, msg, hasPendingColorXY) ==
    IF msg.ColorTemp = None THEN [light |-> l, ops |-> m, applied |-> {}]
    ELSE IF msg.ColorTemp[1] < 153 \/ msg.ColorTemp[1] > 500
         THEN [light |-> l, ops |-> m, applied |-> {}]
    ELSE IF hasPendingColorXY THEN [light |-> l, ops |-> m, applied |-> {}]
    ELSE LET r == MatchesAndClear(m, t, msg.LightID, "color_temp", IntV(msg.ColorTemp[1])) IN
         IF ~r.ret
         THEN [light |-> [l EXCEPT !.Color = [(IF l.Color.nil THEN ZeroColor ELSE l.Color)
                              EXCEPT !.Mirek = msg.ColorTemp[1],
                                     !.Mode = ColorModeColorTemp,
                                     !.cacheValid = FALSE]],
               ops |-> r.ops, applied |-> {"color_temp"}]
         ELSE [light |-> l, ops |-> r.ops, applied |-> {}]

\* The color_xy field, with both flags read before the color fields.
UpdateColorXY(l, m, t, msg, hasPendingColorXY, hasPendingColorTemp) ==
    IF msg.ColorXY = None THEN [light |-> l, ops |-> m, applied |-> {}]
    ELSE IF hasPendingColorXY
         THEN [light |-> l,
               ops |-> MatchesAndClear(m, t, msg.LightID, "color_xy",
                                       XYV(msg.ColorXY[1][1], msg.ColorXY[1][2])).ops,
               applied |-> {}]
    ELSE IF hasPendingColorTemp THEN [light |-> l, ops |-> m, applied |-> {}]
    ELSE [light |-> [l EXCEPT !.Color = [(IF l.Color.nil THEN ZeroColor ELSE l.Color)
                         EXCEPT !.X = msg.ColorXY[1][1], !.Y = msg.ColorXY[1][2],
                                !.Mode = ColorModeXY,
                                !.cacheValid = FALSE]],
          ops |-> m, applied |-> {"color_xy"}]

\* The mutant of HandleLightUpdate that reads the color_temp flag after the
\* color_temp field was processed.
HandleLightUpdate_FlagAfterTemp(l, m, t, msg) ==
    LET a == UpdateOn(l, m, t, msg)
        b == UpdateBrightness(a.light, a.ops, t, msg)
        hxy == HasPending(b.ops, t, msg.LightID, "color_xy")
        c == UpdateColorTemp(b.light, hxy.ops, t, msg, hxy.ret)
        hct == HasPending(c.ops, t, msg.LightID, "color_temp")
        d == UpdateColorXY(c.light, hct.ops, t, msg, hxy.ret, hct.ret)
    IN  [light |-> d.light, ops |-> d.ops,
         applied |-> a.applied \cup b.applied \cup c.applied \cup d.applied]

\* The fields of the message, for a light that was found: [light, ops,
\* applied].
HandleLightUpdate(l, m, t, msg) ==
    LET a == UpdateOn(l, m, t, msg)
        b == UpdateBrightness(a.light, a.ops, t, msg)
        hxy == HasPending(b.ops, t, msg.LightID, "color_xy")
        hct == HasPending(hxy.ops, t, msg.LightID, "color_temp")
        c == UpdateColorTemp(b.light, hct.ops, t, msg, hxy.ret)
        d == UpdateColorXY(c.light, c.ops, t, msg, hxy.ret, hct.ret)
    IN  [light |-> d.light, ops |-> d.ops,
         applied |-> a.applied \cup b.applied \cup c.applied \cup d.applied]

\* The mutant of UpdateRoomsOf that recomputes no room.
UpdateRoomsOf_Skips(rs, ls, id) == rs

\* if updated: UpdateState on every room that holds the light id.
UpdateRoomsOf(rs, ls, id) ==
    [i \in 1..Len(rs) |->
        IF id \in Range(rs[i].Lights) THEN UpdateState(rs[i], ls) ELSE rs[i]]

\* The bridge commands Update returns, and the wait for the next event.
Cmd(name, id, on, n, n2) == [cmd |-> name, id |-> id, on |-> on, n |-> n, n2 |-> n2]
ListenForEventsCmd == Cmd("listenForEvents", "", FALSE, 0, 0)
FetchDataCmd == Cmd("fetchData", "", FALSE, 0, 0)
\* func() tea.Msg { return messages.RefreshMsg{} }
RefreshMsgCmd == Cmd("RefreshMsg", "", FALSE, 0, 0)

\* The listenForEvents commands among the commands cmds.
Armed(cmds) == Cardinality({i \in 1..Len(cmds) : cmds[i] = ListenForEventsCmd})

\* The mutant of FoundLightUpdate that recomputes the rooms of the light
\* whether or not a field was applied.
FoundLightUpdate_AlwaysUpdatesRooms(rs, e, msg, r, ls2) ==
    [lights |-> ls2,
     rooms |-> UpdateRoomsOf(rs, ls2, msg.LightID),
     ops |-> r.ops, err |-> e, updated |-> r.applied # {}, applied |-> r.applied,
     cmds |-> <<ListenForEventsCmd>>]

\* The result of the case for a light that was found, from the result r of
\* its fields and the lights ls2 after them.
FoundLightUpdate(rs, e, msg, r, ls2) ==
    [lights |-> ls2,
     rooms |-> IF r.applied # {} THEN UpdateRoomsOf(rs, ls2, msg.LightID) ELSE rs,
     ops |-> r.ops, err |-> e, updated |-> r.applied # {}, applied |-> r.applied,
     cmds |-> <<ListenForEventsCmd>>]

ApplyLightUpdate(ls, rs, e, msg, r) ==
    FoundLightUpdate(rs, e, msg, r, [ls EXCEPT ![msg.LightID] = r.light])

\* The mutant of UpdateLightUpdateMsg that reports an unknown light as an
\* error and stops listening.
UpdateLightUpdateMsg_ErrorOnUnknown(ls, rs, m, t, e, msg) ==
    IF msg.LightID \notin UNION {Range(rs[i].Lights) : i \in 1..Len(rs)}
    THEN [lights |-> ls, rooms |-> rs, ops |-> m, err |-> "light not found",
          updated |-> FALSE, applied |-> {}, cmds |-> << >>]
    ELSE ApplyLightUpdate(ls, rs, e, msg, HandleLightUpdate(ls[msg.LightID], m, t, msg))

\* case messages.LightUpdateMsg, on lights ls, rooms rs, tracker m at time
\* t and error e: the new lights, rooms, tracker and error, the flag
\* updated, the fields applied and the commands returned.
UpdateLightUpdateMsg(ls, rs, m, t, e, msg) ==
    IF msg.LightID \notin UNION {Range(rs[i].Lights) : i \in 1..Len(rs)}
    THEN [lights |-> ls, rooms |-> rs, ops |-> m, err |-> e,
          updated |-> FALSE, applied |-> {}, cmds |-> <<ListenForEventsCmd>>]
    ELSE ApplyLightUpdate(ls, rs, e, msg, HandleLightUpdate(ls[msg.LightID], m, t, msg))

\* The mutant of UpdateErrorMsg that rolls the optimistic state back by
\* dropping what is pending.
UpdateErrorMsg_DropsPending(ls, rs, m, e) ==
    [lights |-> ls, rooms |-> rs, ops |-> NewPendingTracker, err |-> e,
     loading |-> FALSE]

\* case messages.ErrorMsg, then MainModel.Update, which has no case for it.
UpdateErrorMsg(ls, rs, m, e) ==
    [lights |-> ls, rooms |-> rs, ops |-> m, err |-> e, loading |-> FALSE]

(***************************************************************************)
(* MainModel.Update, case tea.KeyMsg (screens package).                     *)
(***************************************************************************)
\* MainModel.items after rebuildLightList with no search query: for every
\* room that has lights, the room header and then its lights by name.
RECURSIVE BuildItems(_, _)
BuildItems(rs, i) ==
    IF i > Len(rs) THEN << >>
    ELSE (IF Len(rs[i].Lights) > 0
          THEN <<[isRoom |-> TRUE, room |-> i, light |-> ""]>>
               \o [j \in 1..Len(rs[i].Lights) |->
                      [isRoom |-> FALSE, room |-> i, light |-> rs[i].Lights[j]]]
          ELSE << >>)
         \o BuildItems(rs, i + 1)

Items == BuildItems(rooms, 1)

\* SelectedItem() != nil, and the item
HasSelectedItem == selectedIndex >= 0 /\ selectedIndex < Len(Items)
SelectedItem == Items[selectedIndex + 1]

IsRoomSelected == HasSelectedItem /\ SelectedItem.isRoom

\* SelectedLight() != nil, and the light's id
LightSelected == HasSelectedItem /\ ~SelectedItem.isRoom
SelectedLight == SelectedItem.light

\* SelectedRoom(): the index in Model.rooms of the selected item's room
SelectedRoom == SelectedItem.room

ToggleLightCmd(id, on) == Cmd("toggleLight", id, on, 0, 0)
SetBrightnessCmd(id, pct) == Cmd("setBrightness", id, FALSE, pct, 0)
SetColorTempCmd(id, mirek) == Cmd("setColorTemp", id, FALSE, mirek, 0)
SetColorHSCmd(id, hue, sat) == Cmd("setColorHS", id, FALSE, hue, sat)
SetGroupOnCmd(groupID, on) == Cmd("setGroupOn", groupID, on, 0, 0)

Min(a, b) == IF a < b THEN a ELSE b
Max(a, b) == IF a > b THEN a ELSE b

brightnessFromKey(key) ==
    CASE key = "0" -> 100
      [] key = "1" -> 10
      [] key = "2" -> 20
      [] key = "3" -> 30
      [] key = "4" -> 40
      [] key = "5" -> 50
      [] key = "6" -> 60
      [] key = "7" -> 70
      [] key = "8" -> 80
      [] key = "9" -> 90
      [] OTHER -> -1

\* What a key handler leaves alone.
NoChange(ls, rs, m) == [lights |-> ls, rooms |-> rs, ops |-> m, cmds |-> << >>]

\* "right" on one light l with id: [light, ops, cmds].
BrightenLight(id, l, m, t) ==
    IF ~l.On
    THEN [light |-> SetBrightnessPct([l EXCEPT !.On = TRUE], 10),
          ops |-> AddWithDirection(AddWithDirection(m, t, id, "on", BoolV(TRUE), DirExact),
                                   t, id, "brightness", IntV(10), DirUp),
          cmds |-> <<ToggleLightCmd(id, TRUE), SetBrightnessCmd(id, 10)>>]
    ELSE LET newBrightness == Min(100, BrightnessPct(l) + 10) IN
         [light |-> SetBrightnessPct(l, newBrightness),
          ops |-> AddWithDirection(m, t, id, "brightness", IntV(newBrightness), DirUp),
          cmds |-> <<SetBrightnessCmd(id, newBrightness)>>]

\* "right" with a room selected: every light of roomLights that is on, in
\* order, from index i on.
RECURSIVE BrightenRoom(_, _, _, _, _)
BrightenRoom(roomLights, i, ls, m, t) ==
    IF i > Len(roomLights) THEN [lights |-> ls, ops |-> m, cmds |-> << >>]
    ELSE LET id == roomLights[i] IN
         IF ls[id].On
         THEN LET one == BrightenLight(id, ls[id], m, t)
                  rest == BrightenRoom(roomLights, i + 1,
                                       [ls EXCEPT ![id] = one.light], one.ops, t)
              IN  [rest EXCEPT !.cmds = one.cmds \o rest.cmds]
         ELSE BrightenRoom(roomLights, i + 1, ls, m, t)

\* case "right", "l"
UpdateKeyRight(ls, rs, m, t) ==
    IF IsRoomSelected
    THEN LET r == BrightenRoom(rs[SelectedRoom].Lights, 1, ls, m, t)
         IN  [lights |-> r.lights, rooms |-> rs, ops |-> r.ops, cmds |-> r.cmds]
    ELSE IF LightSelected
    THEN LET one == BrightenLight(SelectedLight, ls[SelectedLight], m, t)
         IN  [lights |-> [ls EXCEPT ![SelectedLight] = one.light], rooms |-> rs,
              ops |-> one.ops, cmds |-> one.cmds]
    ELSE NoChange(ls, rs, m)

\* "left" on one light l that is on: [light, ops, cmds].
DimLight(id, l, m, t) ==
    LET newBrightness == Max(0, BrightnessPct(l) - 10) IN
    IF newBrightness = 0
    THEN [light |-> [l EXCEPT !.On = FALSE],
          ops |-> AddWithDirection(m, t, id, "on", BoolV(FALSE), DirExact),
          cmds |-> <<ToggleLightCmd(id, FALSE)>>]
    ELSE [light |-> SetBrightnessPct(l, newBrightness),
          ops |-> AddWithDirection(m, t, id, "brightness", IntV(newBrightness), DirDown),
          cmds |-> <<SetBrightnessCmd(id, newBrightness)>>]

\* "left" with a room selected: every light that is on, never below 10%.
RECURSIVE DimRoom(_, _, _, _, _)
DimRoom(roomLights, i, ls, m, t) ==
    IF i > Len(roomLights) THEN [lights |-> ls, ops |-> m, cmds |-> << >>]
    ELSE LET id == roomLights[i] IN
         IF ls[id].On
         THEN LET newBrightness == Max(10, BrightnessPct(ls[id]) - 10)
                  rest == DimRoom(roomLights, i + 1,
                                  [ls EXCEPT ![id] = SetBrightnessPct(ls[id], newBrightness)],
                                  AddWithDirection(m, t, id, "brightness",
                                                   IntV(newBrightness), DirDown), t)
              IN  [rest EXCEPT !.cmds = <<SetBrightnessCmd(id, newBrightness)>> \o rest.cmds]
         ELSE DimRoom(roomLights, i + 1, ls, m, t)

\* case "left", "h"
UpdateKeyLeft(ls, rs, m, t) ==
    IF IsRoomSelected
    THEN LET r == DimRoom(rs[SelectedRoom].Lights, 1, ls, m, t)
         IN  [lights |-> r.lights, rooms |-> rs, ops |-> r.ops, cmds |-> r.cmds]
    ELSE IF LightSelected /\ ls[SelectedLight].On
    THEN LET one == DimLight(SelectedLight, ls[SelectedLight], m, t)
         IN  [lights |-> [ls EXCEPT ![SelectedLight] = one.light], rooms |-> rs,
              ops |-> one.ops, cmds |-> one.cmds]
    ELSE NoChange(ls, rs, m)

\* for _, l := range room.Lights { l.On = newState; addPending(l.ID, "on",
\* newState, DirExact) }, from index i on: [lights, ops].
RECURSIVE SetRoomLightsOn(_, _, _, _, _, _)
SetRoomLightsOn(roomLights, i, ls, m, t, newState) ==
    IF i > Len(roomLights) THEN [lights |-> ls, ops |-> m]
    ELSE LET id == roomLights[i] IN
         SetRoomLightsOn(roomLights, i + 1, [ls EXCEPT ![id].On = newState],
                         AddWithDirection(m, t, id, "on", BoolV(newState), DirExact),
                         t, newState)

\* The room-level switch of " ", "a" and "x" on room index ri.
SetRoomOn(ls, rs, m, t, ri, newState) ==
    LET r == SetRoomLightsOn(rs[ri].Lights, 1, ls, m, t, newState) IN
    [lights |-> r.lights,
     rooms |-> [rs EXCEPT ![ri] = UpdateState(rs[ri], r.lights)],
     ops |-> r.ops,
     cmds |-> <<SetGroupOnCmd(rs[ri].GroupedLightID, newState)>>]

\* The mutant of UpdateKeySpace that issues the command of a light without
\* registering its op.
UpdateKeySpace_CommandOnly(ls, rs, m, t) ==
    IF IsRoomSelected
    THEN IF rs[SelectedRoom].GroupedLightID # ""
         THEN SetRoomOn(ls, rs, m, t, SelectedRoom, ~rs[SelectedRoom].AnyOn)
         ELSE NoChange(ls, rs, m)
    ELSE IF LightSelected
    THEN LET id == SelectedLight
             on == ~ls[id].On
         IN  [lights |-> [ls EXCEPT ![id].On = on], rooms |-> rs,
              ops |-> m,
              cmds |-> <<ToggleLightCmd(id, on)>>]
    ELSE NoChange(ls, rs, m)

\* case " "
UpdateKeySpace(ls, rs, m, t) ==
    IF IsRoomSelected
    THEN IF rs[SelectedRoom].GroupedLightID # ""
         THEN SetRoomOn(ls, rs, m, t, SelectedRoom, ~rs[SelectedRoom].AnyOn)
         ELSE NoChange(ls, rs, m)
    ELSE IF LightSelected
    THEN LET id == SelectedLight
             on == ~ls[id].On
         IN  [lights |-> [ls EXCEPT ![id].On = on], rooms |-> rs,
              ops |-> AddWithDirection(m, t, id, "on", BoolV(on), DirExact),
              cmds |-> <<ToggleLightCmd(id, on)>>]
    ELSE NoChange(ls, rs, m)

\* case "0" .. "9"
UpdateKeyDigit(ls, rs, m, t, key) ==
    IF LightSelected /\ brightnessFromKey(key) >= 0
    THEN LET id == SelectedLight
             brightness == brightnessFromKey(key)
             oldBrightness == BrightnessPct(ls[id])
             wasOn == ls[id].On
             l2 == [SetBrightnessPct(ls[id], brightness) EXCEPT !.On = TRUE]
             m2 == IF wasOn THEN m
                   ELSE AddWithDirection(m, t, id, "on", BoolV(TRUE), DirExact)
             dir == IF brightness > oldBrightness THEN DirUp
                    ELSE IF brightness < oldBrightness THEN DirDown
                    ELSE DirExact
         IN  [lights |-> [ls EXCEPT ![id] = l2], rooms |-> rs,
              ops |-> AddWithDirection(m2, t, id, "brightness", IntV(brightness), dir),
              cmds |-> (IF wasOn THEN << >> ELSE <<ToggleLightCmd(id, TRUE)>>)
                       \o <<SetBrightnessCmd(id, brightness)>>]
    ELSE NoChange(ls, rs, m)

\* The mutant of UpdateKeyColorTemp that leaves the cache of the Color as
\* it was.
UpdateKeyColorTemp_KeepsCache(ls, rs, m, t, warmer) ==
    IF LightSelected /\ ls[SelectedLight].SupportsColorTemp /\ ~ls[SelectedLight].Color.nil
    THEN LET id == SelectedLight
             c == ls[id].Color
             mirek == IF c.Mirek = 0 THEN 326 ELSE c.Mirek
             newMirek == IF warmer THEN Min(500, mirek + 25) ELSE Max(153, mirek - 25)
         IN  [lights |-> [ls EXCEPT ![id].Color = [c EXCEPT !.Mirek = newMirek,
                                                           !.Mode = ColorModeColorTemp]],
              rooms |-> rs,
              ops |-> AddWithDirection(m, t, id, "color_temp", IntV(newMirek),
                                       IF warmer THEN DirUp ELSE DirDown),
              cmds |-> <<SetColorTempCmd(id, newMirek)>>]
    ELSE NoChange(ls, rs, m)

\* case "w" (warmer = TRUE) and case "c" (warmer = FALSE)
UpdateKeyColorTemp(ls, rs, m, t, warmer) ==
    IF LightSelected /\ ls[SelectedLight].SupportsColorTemp /\ ~ls[SelectedLight].Color.nil
    THEN LET id == SelectedLight
             c == ls[id].Color
             mirek == IF c.Mirek = 0 THEN 326 ELSE c.Mirek
             newMirek == IF warmer THEN Min(500, mirek + 25) ELSE Max(153, mirek - 25)
         IN  [lights |-> [ls EXCEPT ![id].Color = [c EXCEPT !.Mirek = newMirek,
                                                           !.Mode = ColorModeColorTemp,
                                                           !.cacheValid = FALSE]],
              rooms |-> rs,
              ops |-> AddWithDirection(m, t, id, "color_temp", IntV(newMirek),
                                       IF warmer THEN DirUp ELSE DirDown),
              cmds |-> <<SetColorTempCmd(id, newMirek)>>]
    ELSE NoChange(ls, rs, m)

\* The conversions of the hue keys are floating-point computations; each is
\* given at the inputs the keys can reach, with the value the source's
\* arithmetic produces there.  X and Y are in millionths.

\* Color.hsvToRGB
hsvToRGB(c) ==
    CASE <<c.Hue, c.Saturation, c.Brightness>> = <<911, 61, 127>> -> <<127, 99, 96>>
      [] <<c.Hue, c.Saturation, c.Brightness>> = <<911, 86, 127>> -> <<127, 87, 84>>
      [] <<c.Hue, c.Saturation, c.Brightness>> = <<911, 111, 127>> -> <<127, 76, 71>>
      [] <<c.Hue, c.Saturation, c.Brightness>> = <<1093, 81, 127>> -> <<127, 90, 86>>
      [] <<c.Hue, c.Saturation, c.Brightness>> = <<1093, 88, 127>> -> <<127, 87, 83>>
      [] <<c.Hue, c.Saturation, c.Brightness>> = <<1093, 106, 127>> -> <<127, 79, 74>>
      [] <<c.Hue, c.Saturation, c.Brightness>> = <<1093, 131, 127>> -> <<127, 68, 61>>
      [] <<c.Hue, c.Saturation, c.Brightness>> = <<1275, 46, 127>> -> <<127, 107, 104>>
      [] <<c.Hue, c.Saturation, c.Brightness>> = <<1275, 54, 127>> -> <<127, 103, 100>>
      [] <<c.Hue, c.Saturation, c.Brightness>> = <<1275, 68, 127>> -> <<127, 97, 93>>
      [] <<c.Hue, c.Saturation, c.Brightness>> = <<1275, 71, 127>> -> <<127, 96, 91>>
      [] <<c.Hue, c.Saturation, c.Brightness>> = <<1275, 79, 127>> -> <<127, 92, 87>>
      [] <<c.Hue, c.Saturation, c.Brightness>> = <<1275, 89, 127>> -> <<127, 88, 82>>
      [] <<c.Hue, c.Saturation, c.Brightness>> = <<1275, 96, 127>> -> <<127, 84, 79>>
      [] <<c.Hue, c.Saturation, c.Brightness>> = <<1275, 104, 127>> -> <<127, 81, 75>>
      [] <<c.Hue, c.Saturation, c.Brightness>> = <<1275, 114, 127>> -> <<127, 76, 70>>
      [] <<c.Hue, c.Saturation, c.Brightness>> = <<1275, 121, 127>> -> <<127, 73, 66>>
      [] <<c.Hue, c.Saturation, c.Brightness>> = <<1275, 129, 127>> -> <<127, 70, 62>>
      [] <<c.Hue, c.Saturation, c.Brightness>> = <<1275, 139, 127>> -> <<127, 65, 57>>
      [] <<c.Hue, c.Saturation, c.Brightness>> = <<1275, 146, 127>> -> <<127, 62, 54>>
      [] <<c.Hue, c.Saturation, c.Brightness>> = <<1275, 154, 127>> -> <<127, 59, 50>>
      [] <<c.Hue, c.Saturation, c.Brightness>> = <<1275, 164, 127>> -> <<127, 54, 45>>
      [] <<c.Hue, c.Saturation, c.Brightness>> = <<1275, 171, 127>> -> <<127, 51, 41>>
      [] <<c.Hue, c.Saturation, c.Brightness>> = <<1275, 189, 127>> -> <<127, 43, 32>>
      [] <<c.Hue, c.Saturation, c.Brightness>> = <<1275, 196, 127>> -> <<127, 40, 29>>
      [] <<c.Hue, c.Saturation, c.Brightness>> = <<1457, 104, 127>> -> <<127, 82, 75>>
      [] <<c.Hue, c.Saturation, c.Brightness>> = <<1457, 129, 127>> -> <<127, 71, 62>>
      [] <<c.Hue, c.Saturation, c.Brightness>> = <<1457, 142, 127>> -> <<127, 65, 56>>
      [] <<c.Hue, c.Saturation, c.Brightness>> = <<1457, 154, 127>> -> <<127, 60, 50>>
      [] <<c.Hue, c.Saturation, c.Brightness>> = <<1457, 167, 127>> -> <<127, 54, 43>>
      [] <<c.Hue, c.Saturation, c.Brightness>> = <<1457, 179, 127>> -> <<127, 49, 37>>
      [] <<c.Hue, c.Saturation, c.Brightness>> = <<1457, 192, 127>> -> <<127, 43, 31>>
      [] <<c.Hue, c.Saturation, c.Brightness>> = <<1457, 204, 127>> -> <<127, 38, 25>>
      [] <<c.Hue, c.Saturation, c.Brightness>> = <<1639, 185, 127>> -> <<127, 48, 34>>
      [] <<c.Hue, c.Saturation, c.Brightness>> = <<3277, 59, 127>> -> <<127, 106, 97>>
      [] <<c.Hue, c.Saturation, c.Brightness>> = <<3277, 84, 127>> -> <<127, 97, 85>>
      [] <<c.Hue, c.Saturation, c.Brightness>> = <<3277, 109, 127>> -> <<127, 89, 72>>
      [] <<c.Hue, c.Saturation, c.Brightness>> = <<3277, 134, 127>> -> <<127, 80, 60>>
      [] <<c.Hue, c.Saturation, c.Brightness>> = <<3277, 159, 127>> -> <<127, 71, 47>>
      [] <<c.Hue, c.Saturation, c.Brightness>> = <<3277, 184, 127>> -> <<127, 62, 35>>
      [] <<c.Hue, c.Saturation, c.Brightness>> = <<3277, 209, 127>> -> <<127, 54, 22>>
      [] <<c.Hue, c.Saturation, c.Brightness>> = <<4551, 36, 127>> -> <<127, 116, 109>>
      [] <<c.Hue, c.Saturation, c.Brightness>> = <<4551, 61, 127>> -> <<127, 109, 96>>
      [] <<c.Hue, c.Saturation, c.Brightness>> = <<4551, 86, 127>> -> <<127, 102, 84>>
      [] <<c.Hue, c.Saturation, c.Brightness>> = <<4551, 111, 127>> -> <<127, 94, 71>>
      [] <<c.Hue, c.Saturation, c.Brightness>> = <<4551, 136, 127>> -> <<127, 87, 59>>
      [] <<c.Hue, c.Saturation, c.Brightness>> = <<4733, 56, 127>> -> <<127, 111, 99>>
      [] <<c.Hue, c.Saturation, c.Brightness>> = <<4733, 63, 127>> -> <<127, 109, 95>>
      [] <<c.Hue, c.Saturation, c.Brightness>> = <<4733, 81, 127>> -> <<127, 104, 86>>
      [] <<c.Hue, c.Saturation, c.Brightness>> = <<4733, 106, 127>> -> <<127, 97, 74>>
      [] <<c.Hue, c.Saturation, c.Brightness>> = <<4733, 113, 127>> -> <<127, 95, 70>>
      [] <<c.Hue, c.Saturation, c.Brightness>> = <<4733, 131, 127>> -> <<127, 90, 61>>
      [] <<c.Hue, c.Saturation, c.Brightness>> = <<4733, 156, 127>> -> <<127, 83, 49>>
      [] <<c.Hue, c.Saturation, c.Brightness>> = <<4915, 21, 127>> -> <<127, 121, 116>>
      [] <<c.Hue, c.Saturation, c.Brightness>> = <<4915, 29, 127>> -> <<127, 119, 112>>
      [] <<c.Hue, c.Saturation, c.Brightness>> = <<4915, 43, 127>> -> <<127, 115, 105>>
      [] <<c.Hue, c.Saturation, c.Brightness>> = <<4915, 46, 127>> -> <<127, 114, 104>>
      [] <<c.Hue, c.Saturation, c.Brightness>> = <<4915, 54, 127>> -> <<127, 112, 100>>
      [] <<c.Hue, c.Saturation, c.Brightness>> = <<4915, 64, 127>> -> <<127, 109, 95>>
      [] <<c.Hue, c.Saturation, c.Brightness>> = <<4915, 71, 127>> -> <<127, 107, 91>>
      [] <<c.Hue, c.Saturation, c.Brightness>> = <<4915, 79, 127>> -> <<127, 105, 87>>
      [] <<c.Hue, c.Saturation, c.Brightness>> = <<4915, 89, 127>> -> <<127, 102, 82>>
      [] <<c.Hue, c.Saturation, c.Brightness>> = <<4915, 93, 127>> -> <<127, 101, 80>>
      [] <<c.Hue, c.Saturation, c.Brightness>> = <<4915, 96, 127>> -> <<127, 100, 79>>
      [] <<c.Hue, c.Saturation, c.Brightness>> = <<4915, 104, 127>> -> <<127, 98, 75>>
      [] <<c.Hue, c.Saturation, c.Brightness>> = <<4915, 114, 127>> -> <<127, 96, 70>>
      [] <<c.Hue, c.Saturation, c.Brightness>> = <<4915, 121, 127>> -> <<127, 94, 66>>
      [] <<c.Hue, c.Saturation, c.Brightness>> = <<4915, 129, 127>> -> <<127, 91, 62>>
      [] <<c.Hue, c.Saturation, c.Brightness>> = <<4915, 139, 127>> -> <<127, 89, 57>>
      [] <<c.Hue, c.Saturation, c.Brightness>> = <<4915, 146, 127>> -> <<127, 87, 54>>
      [] <<c.Hue, c.Saturation, c.Brightness>> = <<4915, 154, 127>> -> <<127, 84, 50>>
      [] <<c.Hue, c.Saturation, c.Brightness>> = <<4915, 164, 127>> -> <<127, 82, 45>>
      [] <<c.Hue, c.Saturation, c.Brightness>> = <<4915, 171, 127>> -> <<127, 80, 41>>
      [] <<c.Hue, c.Saturation, c.Brightness>> = <<4915, 179, 127>> -> <<127, 78, 37>>
      [] <<c.Hue, c.Saturation, c.Brightness>> = <<4915, 189, 127>> -> <<127, 75, 32>>
      [] <<c.Hue, c.Saturation, c.Brightness>> = <<4915, 196, 127>> -> <<127, 73, 29>>
      [] <<c.Hue, c.Saturation, c.Brightness>> = <<4915, 214, 127>> -> <<127, 68, 20>>
      [] <<c.Hue, c.Saturation, c.Brightness>> = <<4915, 221, 127>> -> <<127, 66, 16>>
      [] <<c.Hue, c.Saturation, c.Brightness>> = <<5097, 79, 127>> -> <<127, 106, 87>>
      [] <<c.Hue, c.Saturation, c.Brightness>> = <<5097, 104, 127>> -> <<127, 99, 75>>
      [] <<c.Hue, c.Saturation, c.Brightness>> = <<5097, 117, 127>> -> <<127, 96, 68>>
      [] <<c.Hue, c.Saturation, c.Brightness>> = <<5097, 129, 127>> -> <<127, 92, 62>>
      [] <<c.Hue, c.Saturation, c.Brightness>> = <<5097, 142, 127>> -> <<127, 89, 56>>
      [] <<c.Hue, c.Saturation, c.Brightness>> = <<5097, 154, 127>> -> <<127, 86, 50>>
      [] <<c.Hue, c.Saturation, c.Brightness>> = <<5097, 167, 127>> -> <<127, 82, 43>>
      [] <<c.Hue, c.Saturation, c.Brightness>> = <<5097, 179, 127>> -> <<127, 79, 37>>
      [] <<c.Hue, c.Saturation, c.Brightness>> = <<5097, 192, 127>> -> <<127, 76, 31>>
      [] <<c.Hue, c.Saturation, c.Brightness>> = <<5097, 204, 127>> -> <<127, 72, 25>>
      [] <<c.Hue, c.Saturation, c.Brightness>> = <<5097, 217, 127>> -> <<127, 69, 18>>
      [] <<c.Hue, c.Saturation, c.Brightness>> = <<5097, 229, 127>> -> <<127, 66, 12>>
      [] <<c.Hue, c.Saturation, c.Brightness>> = <<5279, 160, 127>> -> <<127, 86, 47>>
      [] <<c.Hue, c.Saturation, c.Brightness>> = <<5279, 210, 127>> -> <<127, 73, 22>>
      [] <<c.Hue, c.Saturation, c.Brightness>> = <<6917, 34, 127>> -> <<127, 121, 110>>
      [] <<c.Hue, c.Saturation, c.Brightness>> = <<6917, 59, 127>> -> <<127, 116, 97>>
      [] <<c.Hue, c.Saturation, c.Brightness>> = <<6917, 84, 127>> -> <<127, 112, 85>>
      [] <<c.Hue, c.Saturation, c.Brightness>> = <<6917, 109, 127>> -> <<127, 107, 72>>
      [] <<c.Hue, c.Saturation, c.Brightness>> = <<6917, 134, 127>> -> <<127, 102, 60>>
      [] <<c.Hue, c.Saturation, c.Brightness>> = <<6917, 159, 127>> -> <<127, 98, 47>>
      [] <<c.Hue, c.Saturation, c.Brightness>> = <<6917, 184, 127>> -> <<127, 93, 35>>
      [] <<c.Hue, c.Saturation, c.Brightness>> = <<6917, 209, 127>> -> <<127, 89, 22>>
      [] <<c.Hue, c.Saturation, c.Brightness>> = <<6917, 234, 127>> -> <<127, 84, 10>>
      [] <<c.Hue, c.Saturation, c.Brightness>> = <<8191, 61, 127>> -> <<127, 119, 96>>
      [] <<c.Hue, c.Saturation, c.Brightness>> = <<8191, 86, 127>> -> <<127, 116, 84>>
      [] <<c.Hue, c.Saturation, c.Brightness>> = <<8191, 111, 127>> -> <<127, 113, 71>>
      [] <<c.Hue, c.Saturation, c.Brightness>> = <<8373, 81, 127>> -> <<127, 118, 86>>
      [] <<c.Hue, c.Saturation, c.Brightness>> = <<8373, 88, 127>> -> <<127, 117, 83>>
      [] <<c.Hue, c.Saturation, c.Brightness>> = <<8373, 106, 127>> -> <<127, 115, 74>>
      [] <<c.Hue, c.Saturation, c.Brightness>> = <<8373, 131, 127>> -> <<127, 112, 61>>
      [] <<c.Hue, c.Saturation, c.Brightness>> = <<8555, 46, 127>> -> <<127, 122, 104>>
      [] <<c.Hue, c.Saturation, c.Brightness>> = <<8555, 54, 127>> -> <<127, 121, 100>>
      [] <<c.Hue, c.Saturation, c.Brightness>> = <<8555, 68, 127>> -> <<127, 120, 93>>
      [] <<c.Hue, c.Saturation, c.Brightness>> = <<8555, 71, 127>> -> <<127, 119, 91>>
      [] <<c.Hue, c.Saturation, c.Brightness>> = <<8555, 79, 127>> -> <<127, 118, 87>>
      [] <<c.Hue, c.Saturation, c.Brightness>> = <<8555, 89, 127>> -> <<127, 117, 82>>
      [] <<c.Hue, c.Saturation, c.Brightness>> = <<8555, 96, 127>> -> <<127, 117, 79>>
      [] <<c.Hue, c.Saturation, c.Brightness>> = <<8555, 104, 127>> -> <<127, 116, 75>>
      [] <<c.Hue, c.Saturation, c.Brightness>> = <<8555, 114, 127>> -> <<127, 115, 70>>
      [] <<c.Hue, c.Saturation, c.Brightness>> = <<8555, 121, 127>> -> <<127, 114, 66>>
      [] <<c.Hue, c.Saturation, c.Brightness>> = <<8555, 129, 127>> -> <<127, 113, 62>>
      [] <<c.Hue, c.Saturation, c.Brightness>> = <<8555, 139, 127>> -> <<127, 112, 57>>
      [] <<c.Hue, c.Saturation, c.Brightness>> = <<8555, 146, 127>> -> <<127, 111, 54>>
      [] <<c.Hue, c.Saturation, c.Brightness>> = <<8555, 154, 127>> -> <<127, 110, 50>>
      [] <<c.Hue, c.Saturation, c.Brightness>> = <<8555, 164, 127>> -> <<127, 109, 45>>
      [] <<c.Hue, c.Saturation, c.Brightness>> = <<8555, 171, 127>> -> <<127, 108, 41>>
      [] <<c.Hue, c.Saturation, c.Brightness>> = <<8555, 189, 127>> -> <<127, 106, 32>>
      [] <<c.Hue, c.Saturation, c.Brightness>> = <<8555, 196, 127>> -> <<127, 106, 29>>
      [] <<c.Hue, c.Saturation, c.Brightness>> = <<8737, 104, 127>> -> <<127, 117, 75>>
      [] <<c.Hue, c.Saturation, c.Brightness>> = <<8737, 129, 127>> -> <<127, 114, 62>>
      [] <<c.Hue, c.Saturation, c.Brightness>> = <<8737, 142, 127>> -> <<127, 113, 56>>
      [] <<c.Hue, c.Saturation, c.Brightness>> = <<8737, 154, 127>> -> <<127, 112, 50>>
      [] <<c.Hue, c.Saturation, c.Brightness>> = <<8737, 167, 127>> -> <<127, 110, 43>>
      [] <<c.Hue, c.Saturation, c.Brightness>> = <<8737, 179, 127>> -> <<127, 109, 37>>
      [] <<c.Hue, c.Saturation, c.Brightness>> = <<8737, 192, 127>> -> <<127, 108, 31>>
      [] <<c.Hue, c.Saturation, c.Brightness>> = <<8737, 204, 127>> -> <<127, 107, 25>>
      [] <<c.Hue, c.Saturation, c.Brightness>> = <<8919, 185, 127>> -> <<127, 110, 34>>
      [] <<c.Hue, c.Saturation, c.Brightness>> = <<10557, 59, 127>> -> <<127, 126, 97>>
      [] <<c.Hue, c.Saturation, c.Brightness>> = <<10557, 84, 127>> -> <<127, 126, 85>>
      [] <<c.Hue, c.Saturation, c.Brightness>> = <<10557, 109, 127>> -> <<127, 125, 72>>
      [] <<c.Hue, c.Saturation, c.Brightness>> = <<10557, 134, 127>> -> <<127, 125, 60>>
      [] <<c.Hue, c.Saturation, c.Brightness>> = <<10557, 159, 127>> -> <<127, 124, 47>>
      [] <<c.Hue, c.Saturation, c.Brightness>> = <<10557, 184, 127>> -> <<127, 124, 35>>
      [] <<c.Hue, c.Saturation, c.Brightness>> = <<10557, 209, 127>> -> <<127, 123, 22>>
      [] <<c.Hue, c.Saturation, c.Brightness>> = <<11831, 86, 127>> -> <<123, 127, 84>>
      [] <<c.Hue, c.Saturation, c.Brightness>> = <<12013, 106, 127>> -> <<122, 127, 74>>
      [] <<c.Hue, c.Saturation, c.Brightness>> = <<12195, 71, 127>> -> <<123, 127, 91>>
      [] <<c.Hue, c.Saturation, c.Brightness>> = <<12195, 79, 127>> -> <<122, 127, 87>>
      [] <<c.Hue, c.Saturation, c.Brightness>> = <<12195, 96, 127>> -> <<121, 127, 79>>
      [] <<c.Hue, c.Saturation, c.Brightness>> = <<12195, 104, 127>> -> <<121, 127, 75>>
      [] <<c.Hue, c.Saturation, c.Brightness>> = <<12195, 114, 127>> -> <<120, 127, 70>>
      [] <<c.Hue, c.Saturation, c.Brightness>> = <<12195, 121, 127>> -> <<120, 127, 66>>
      [] <<c.Hue, c.Saturation, c.Brightness>> = <<12195, 129, 127>> -> <<119, 127, 62>>
      [] <<c.Hue, c.Saturation, c.Brightness>> = <<12195, 139, 127>> -> <<119, 127, 57>>
      [] <<c.Hue, c.Saturation, c.Brightness>> = <<12195, 146, 127>> -> <<118, 127, 54>>
      [] <<c.Hue, c.Saturation, c.Brightness>> = <<12195, 164, 127>> -> <<117, 127, 45>>
      [] <<c.Hue, c.Saturation, c.Brightness>> = <<12195, 171, 127>> -> <<117, 127, 41>>
      [] <<c.Hue, c.Saturation, c.Brightness>> = <<12377, 129, 127>> -> <<118, 127, 62>>
      [] <<c.Hue, c.Saturation, c.Brightness>> = <<12377, 154, 127>> -> <<117, 127, 50>>
      [] <<c.Hue, c.Saturation, c.Brightness>> = <<12377, 167, 127>> -> <<116, 127, 43>>
      [] <<c.Hue, c.Saturation, c.Brightness>> = <<12377, 179, 127>> -> <<115, 127, 37>>
      [] <<c.Hue, c.Saturation, c.Brightness>> = <<14197, 84, 127>> -> <<114, 127, 85>>
      [] <<c.Hue, c.Saturation, c.Brightness>> = <<14197, 109, 127>> -> <<111, 127, 72>>
      [] <<c.Hue, c.Saturation, c.Brightness>> = <<14197, 134, 127>> -> <<107, 127, 60>>
      [] <<c.Hue, c.Saturation, c.Brightness>> = <<14197, 159, 127>> -> <<103, 127, 47>>
      [] <<c.Hue, c.Saturation, c.Brightness>> = <<14197, 184, 127>> -> <<99, 127, 35>>
      [] <<c.Hue, c.Saturation, c.Brightness>> = <<15835, 96, 127>> -> <<105, 127, 79>>
      [] <<c.Hue, c.Saturation, c.Brightness>> = <<15835, 104, 127>> -> <<104, 127, 75>>
      [] <<c.Hue, c.Saturation, c.Brightness>> = <<15835, 121, 127>> -> <<100, 127, 66>>
      [] <<c.Hue, c.Saturation, c.Brightness>> = <<15835, 139, 127>> -> <<96, 127, 57>>
      [] <<c.Hue, c.Saturation, c.Brightness>> = <<15835, 146, 127>> -> <<94, 127, 54>>
      [] <<c.Hue, c.Saturation, c.Brightness>> = <<16017, 154, 127>> -> <<91, 127, 50>>
      [] <<c.Hue, c.Saturation, c.Brightness>> = <<17837, 109, 127>> -> <<92, 127, 72>>
      [] <<c.Hue, c.Saturation, c.Brightness>> = <<17837, 134, 127>> -> <<84, 127, 60>>
      [] <<c.Hue, c.Saturation, c.Brightness>> = <<17837, 159, 127>> -> <<76, 127, 47>>
      [] <<c.Hue, c.Saturation, c.Brightness>> = <<19475, 121, 127>> -> <<79, 127, 66>>
      [] <<c.Hue, c.Saturation, c.Brightness>> = <<21477, 134, 127>> -> <<62, 127, 60>>
      [] <<c.Hue, c.Saturation, c.Brightness>> = <<29130, 104, 127>> -> <<75, 127, 110>>
      [] <<c.Hue, c.Saturation, c.Brightness>> = <<32770, 79, 127>> -> <<87, 127, 127>>
      [] <<c.Hue, c.Saturation, c.Brightness>> = <<32770, 104, 127>> -> <<75, 127, 127>>
      [] <<c.Hue, c.Saturation, c.Brightness>> = <<32770, 129, 127>> -> <<62, 127, 127>>
      [] <<c.Hue, c.Saturation, c.Brightness>> = <<36410, 54, 127>> -> <<100, 118, 127>>
      [] <<c.Hue, c.Saturation, c.Brightness>> = <<36410, 79, 127>> -> <<87, 114, 127>>
      [] <<c.Hue, c.Saturation, c.Brightness>> = <<36410, 104, 127>> -> <<75, 110, 127>>
      [] <<c.Hue, c.Saturation, c.Brightness>> = <<36410, 129, 127>> -> <<62, 105, 127>>
      [] <<c.Hue, c.Saturation, c.Brightness>> = <<36410, 154, 127>> -> <<50, 101, 127>>
      [] <<c.Hue, c.Saturation, c.Brightness>> = <<40050, 29, 127>> -> <<112, 117, 127>>
      [] <<c.Hue, c.Saturation, c.Brightness>> = <<40050, 54, 127>> -> <<100, 109, 127>>
      [] <<c.Hue, c.Saturation, c.Brightness>> = <<40050, 79, 127>> -> <<87, 101, 127>>
      [] <<c.Hue, c.Saturation, c.Brightness>> = <<40050, 104, 127>> -> <<75, 92, 127>>
      [] <<c.Hue, c.Saturation, c.Brightness>> = <<40050, 129, 127>> -> <<62, 84, 127>>
      [] <<c.Hue, c.Saturation, c.Brightness>> = <<40050, 154, 127>> -> <<50, 75, 127>>
      [] <<c.Hue, c.Saturation, c.Brightness>> = <<40050, 179, 127>> -> <<37, 67, 127>>
      [] <<c.Hue, c.Saturation, c.Brightness>> = <<43690, 4, 127>> -> <<125, 125, 127>>
      [] <<c.Hue, c.Saturation, c.Brightness>> = <<43690, 29, 127>> -> <<112, 112, 127>>
      [] <<c.Hue, c.Saturation, c.Brightness>> = <<43690, 54, 127>> -> <<100, 100, 127>>
      [] <<c.Hue, c.Saturation, c.Brightness>> = <<43690, 79, 127>> -> <<87, 87, 127>>
      [] <<c.Hue, c.Saturation, c.Brightness>> = <<43690, 104, 127>> -> <<75, 75, 127>>
      [] <<c.Hue, c.Saturation, c.Brightness>> = <<43690, 129, 127>> -> <<62, 62, 127>>
      [] <<c.Hue, c.Saturation, c.Brightness>> = <<43690, 154, 127>> -> <<50, 50, 127>>
      [] <<c.Hue, c.Saturation, c.Brightness>> = <<43690, 179, 127>> -> <<37, 37, 127>>
      [] <<c.Hue, c.Saturation, c.Brightness>> = <<43690, 204, 127>> -> <<25, 25, 127>>
      [] <<c.Hue, c.Saturation, c.Brightness>> = <<47330, 29, 127>> -> <<117, 112, 127>>
      [] <<c.Hue, c.Saturation, c.Brightness>> = <<47330, 54, 127>> -> <<109, 100, 127>>
      [] <<c.Hue, c.Saturation, c.Brightness>> = <<47330, 79, 127>> -> <<101, 87, 127>>
      [] <<c.Hue, c.Saturation, c.Brightness>> = <<47330, 104, 127>> -> <<92, 75, 127>>
      [] <<c.Hue, c.Saturation, c.Brightness>> = <<47330, 129, 127>> -> <<84, 62, 127>>
      [] <<c.Hue, c.Saturation, c.Brightness>> = <<47330, 154, 127>> -> <<75, 50, 127>>
      [] <<c.Hue, c.Saturation, c.Brightness>> = <<47330, 179, 127>> -> <<67, 37, 127>>
      [] <<c.Hue, c.Saturation, c.Brightness>> = <<50970, 54, 127>> -> <<118, 100, 127>>
      [] <<c.Hue, c.Saturation, c.Brightness>> = <<50970, 79, 127>> -> <<114, 87, 127>>
      [] <<c.Hue, c.Saturation, c.Brightness>> = <<50970, 104, 127>> -> <<110, 75, 127>>
      [] <<c.Hue, c.Saturation, c.Brightness>> = <<50970, 129, 127>> -> <<105, 62, 127>>
      [] <<c.Hue, c.Saturation, c.Brightness>> = <<50970, 154, 127>> -> <<101, 50, 127>>
      [] <<c.Hue, c.Saturation, c.Brightness>> = <<54610, 79, 127>> -> <<127, 87, 127>>
      [] <<c.Hue, c.Saturation, c.Brightness>> = <<54610, 104, 127>> -> <<127, 75, 127>>
      [] <<c.Hue, c.Saturation, c.Brightness>> = <<54610, 129, 127>> -> <<127, 62, 127>>
      [] <<c.Hue, c.Saturation, c.Brightness>> = <<55891, 121, 127>> -> <<127, 66, 120>>
      [] <<c.Hue, c.Saturation, c.Brightness>> = <<57893, 134, 127>> -> <<127, 60, 107>>
      [] <<c.Hue, c.Saturation, c.Brightness>> = <<58250, 104, 127>> -> <<127, 75, 110>>
      [] <<c.Hue, c.Saturation, c.Brightness>> = <<59531, 96, 127>> -> <<127, 79, 105>>
      [] <<c.Hue, c.Saturation, c.Brightness>> = <<59531, 104, 127>> -> <<127, 75, 103>>
      [] <<c.Hue, c.Saturation, c.Brightness>> = <<59531, 121, 127>> -> <<127, 66, 100>>
      [] <<c.Hue, c.Saturation, c.Brightness>> = <<59531, 139, 127>> -> <<127, 57, 96>>
      [] <<c.Hue, c.Saturation, c.Brightness>> = <<59531, 146, 127>> -> <<127, 54, 94>>
      [] <<c.Hue, c.Saturation, c.Brightness>> = <<59713, 154, 127>> -> <<127, 50, 91>>
      [] <<c.Hue, c.Saturation, c.Brightness>> = <<61533, 109, 127>> -> <<127, 72, 92>>
      [] <<c.Hue, c.Saturation, c.Brightness>> = <<61533, 134, 127>> -> <<127, 60, 84>>
      [] <<c.Hue, c.Saturation, c.Brightness>> = <<61533, 159, 127>> -> <<127, 47, 76>>
      [] <<c.Hue, c.Saturation, c.Brightness>> = <<62807, 86, 127>> -> <<127, 84, 95>>
      [] <<c.Hue, c.Saturation, c.Brightness>> = <<62989, 106, 127>> -> <<127, 74, 86>>
      [] <<c.Hue, c.Saturation, c.Brightness>> = <<63171, 71, 127>> -> <<127, 91, 99>>
      [] <<c.Hue, c.Saturation, c.Brightness>> = <<63171, 79, 127>> -> <<127, 87, 96>>
      [] <<c.Hue, c.Saturation, c.Brightness>> = <<63171, 96, 127>> -> <<127, 79, 89>>
      [] <<c.Hue, c.Saturation, c.Brightness>> = <<63171, 104, 127>> -> <<127, 75, 86>>
      [] <<c.Hue, c.Saturation, c.Brightness>> = <<63171, 114, 127>> -> <<127, 70, 82>>
      [] <<c.Hue, c.Saturation, c.Brightness>> = <<63171, 121, 127>> -> <<127, 66, 79>>
      [] <<c.Hue, c.Saturation, c.Brightness>> = <<63171, 129, 127>> -> <<127, 62, 76>>
      [] <<c.Hue, c.Saturation, c.Brightness>> = <<63171, 139, 127>> -> <<127, 57, 72>>
      [] <<c.Hue, c.Saturation, c.Brightness>> = <<63171, 146, 127>> -> <<127, 54, 70>>
      [] <<c.Hue, c.Saturation, c.Brightness>> = <<63171, 164, 127>> -> <<127, 45, 62>>
      [] <<c.Hue, c.Saturation, c.Brightness>> = <<63171, 171, 127>> -> <<127, 41, 60>>
      [] <<c.Hue, c.Saturation, c.Brightness>> = <<63353, 129, 127>> -> <<127, 62, 75>>
      [] <<c.Hue, c.Saturation, c.Brightness>> = <<63353, 154, 127>> -> <<127, 50, 65>>
      [] <<c.Hue, c.Saturation, c.Brightness>> = <<63353, 167, 127>> -> <<127, 43, 60>>
      [] <<c.Hue, c.Saturation, c.Brightness>> = <<63353, 179, 127>> -> <<127, 37, 55>>
      [] <<c.Hue, c.Saturation, c.Brightness>> = <<65173, 84, 127>> -> <<127, 85, 86>>
      [] <<c.Hue, c.Saturation, c.Brightness>> = <<65173, 109, 127>> -> <<127, 72, 74>>
      [] <<c.Hue, c.Saturation, c.Brightness>> = <<65173, 134, 127>> -> <<127, 60, 62>>
      [] <<c.Hue, c.Saturation, c.Brightness>> = <<65173, 159, 127>> -> <<127, 47, 50>>
      [] <<c.Hue, c.Saturation, c.Brightness>> = <<65173, 184, 127>> -> <<127, 35, 38>>

\* Color.xyToRGB
xyToRGB(c) ==
    CASE <<c.X, c.Y, c.Brightness>> = <<163800, 83500, 25>> -> <<68, 68, 242>>
      [] <<c.X, c.Y, c.Brightness>> = <<163800, 83500, 48>> -> <<94, 94, 255>>
      [] <<c.X, c.Y, c.Brightness>> = <<163800, 83500, 127>> -> <<148, 148, 255>>
      [] <<c.X, c.Y, c.Brightness>> = <<163800, 83500, 139>> -> <<154, 154, 255>>
      [] <<c.X, c.Y, c.Brightness>> = <<163800, 83500, 152>> -> <<161, 160, 255>>
      [] <<c.X, c.Y, c.Brightness>> = <<163800, 83500, 162>> -> <<165, 165, 255>>
      [] <<c.X, c.Y, c.Brightness>> = <<163800, 83500, 175>> -> <<171, 171, 255>>
      [] <<c.X, c.Y, c.Brightness>> = <<163800, 83500, 185>> -> <<175, 175, 255>>
      [] <<c.X, c.Y, c.Brightness>> = <<414546, 459479, 127>> -> <<193, 189, 89>>
      [] <<c.X, c.Y, c.Brightness>> = <<457300, 410000, 127>> -> <<218, 176, 101>>

\* Color.mirekToRGB
mirekToRGB(c) ==
    CASE <<c.Mirek, c.Brightness>> = <<200, 127>> -> <<127, 114, 102>>
      [] <<c.Mirek, c.Brightness>> = <<225, 127>> -> <<127, 108, 92>>
      [] <<c.Mirek, c.Brightness>> = <<226, 127>> -> <<127, 107, 92>>
      [] <<c.Mirek, c.Brightness>> = <<250, 127>> -> <<127, 102, 83>>
      [] <<c.Mirek, c.Brightness>> = <<251, 127>> -> <<127, 102, 82>>
      [] <<c.Mirek, c.Brightness>> = <<275, 127>> -> <<127, 98, 74>>
      [] <<c.Mirek, c.Brightness>> = <<276, 127>> -> <<127, 97, 73>>
      [] <<c.Mirek, c.Brightness>> = <<300, 25>> -> <<25, 18, 12>>
      [] <<c.Mirek, c.Brightness>> = <<300, 48>> -> <<48, 35, 24>>
      [] <<c.Mirek, c.Brightness>> = <<300, 127>> -> <<127, 93, 65>>
      [] <<c.Mirek, c.Brightness>> = <<300, 139>> -> <<139, 102, 71>>
      [] <<c.Mirek, c.Brightness>> = <<300, 152>> -> <<152, 112, 78>>
      [] <<c.Mirek, c.Brightness>> = <<300, 162>> -> <<162, 119, 83>>
      [] <<c.Mirek, c.Brightness>> = <<300, 175>> -> <<175, 129, 90>>
      [] <<c.Mirek, c.Brightness>> = <<300, 185>> -> <<185, 136, 95>>
      [] <<c.Mirek, c.Brightness>> = <<301, 127>> -> <<127, 93, 65>>
      [] <<c.Mirek, c.Brightness>> = <<325, 25>> -> <<25, 17, 11>>
      [] <<c.Mirek, c.Brightness>> = <<325, 127>> -> <<127, 89, 57>>
      [] <<c.Mirek, c.Brightness>> = <<325, 139>> -> <<139, 98, 63>>
      [] <<c.Mirek, c.Brightness>> = <<325, 152>> -> <<152, 107, 68>>
      [] <<c.Mirek, c.Brightness>> = <<325, 162>> -> <<162, 114, 73>>
      [] <<c.Mirek, c.Brightness>> = <<326, 127>> -> <<127, 89, 57>>
      [] <<c.Mirek, c.Brightness>> = <<350, 127>> -> <<127, 86, 49>>
      [] <<c.Mirek, c.Brightness>> = <<350, 139>> -> <<139, 94, 54>>
      [] <<c.Mirek, c.Brightness>> = <<351, 25>> -> <<25, 16, 9>>
      [] <<c.Mirek, c.Brightness>> = <<351, 127>> -> <<127, 86, 49>>
      [] <<c.Mirek, c.Brightness>> = <<351, 139>> -> <<139, 94, 54>>
      [] <<c.Mirek, c.Brightness>> = <<351, 152>> -> <<152, 102, 59>>
      [] <<c.Mirek, c.Brightness>> = <<351, 162>> -> <<162, 109, 63>>
      [] <<c.Mirek, c.Brightness>> = <<375, 127>> -> <<127, 82, 42>>
      [] <<c.Mirek, c.Brightness>> = <<376, 127>> -> <<127, 82, 42>>
      [] <<c.Mirek, c.Brightness>> = <<376, 139>> -> <<139, 90, 46>>
      [] <<c.Mirek, c.Brightness>> = <<400, 127>> -> <<127, 79, 35>>
      [] <<c.Mirek, c.Brightness>> = <<401, 127>> -> <<127, 79, 34>>
      [] <<c.Mirek, c.Brightness>> = <<426, 127>> -> <<127, 76, 27>>
      [] <<c.Mirek, c.Brightness>> = <<451, 127>> -> <<127, 73, 20>>

\* The switch of Color.RGB: the conversion of the fields of the current mode.
ComputeRGB(c) ==
    CASE c.Mode = ColorModeHS -> hsvToRGB(c)
      [] c.Mode = ColorModeXY -> xyToRGB(c)
      [] c.Mode = ColorModeColorTemp -> mirekToRGB(c)
      [] c.Mode = ColorModeNone -> <<255, 255, 255>>

\* Color.RGB, the value returned: the cached one while the cache is valid.
RGB(c) == IF c.cacheValid THEN c.cached ELSE ComputeRGB(c)

\* Color.RGB, the Color it leaves: the value cached and the cache valid.
AfterRGB(c) == [c EXCEPT !.cached = RGB(c), !.cacheValid = TRUE]

\* rgbToHueSat: hue in degrees, saturation in percent
rgbToHueSat(r, g, b) ==
    CASE <<r, g, b>> = <<25, 16, 9>> -> <<26, 64>>
      [] <<r, g, b>> = <<25, 17, 11>> -> <<25, 56>>
      [] <<r, g, b>> = <<25, 18, 12>> -> <<27, 52>>
      [] <<r, g, b>> = <<48, 35, 24>> -> <<27, 50>>
      [] <<r, g, b>> = <<68, 68, 242>> -> <<240, 71>>
      [] <<r, g, b>> = <<94, 94, 255>> -> <<240, 63>>
      [] <<r, g, b>> = <<127, 73, 20>> -> <<29, 84>>
      [] <<r, g, b>> = <<127, 76, 27>> -> <<29, 78>>
      [] <<r, g, b>> = <<127, 79, 34>> -> <<29, 73>>
      [] <<r, g, b>> = <<127, 79, 35>> -> <<28, 72>>
      [] <<r, g, b>> = <<127, 82, 42>> -> <<28, 66>>
      [] <<r, g, b>> = <<127, 86, 49>> -> <<28, 61>>
      [] <<r, g, b>> = <<127, 89, 57>> -> <<27, 55>>
      [] <<r, g, b>> = <<127, 93, 65>> -> <<27, 48>>
      [] <<r, g, b>> = <<127, 97, 73>> -> <<26, 42>>
      [] <<r, g, b>> = <<127, 98, 74>> -> <<27, 41>>
      [] <<r, g, b>> = <<127, 102, 82>> -> <<26, 35>>
      [] <<r, g, b>> = <<127, 102, 83>> -> <<25, 34>>
      [] <<r, g, b>> = <<127, 107, 92>> -> <<25, 27>>
      [] <<r, g, b>> = <<127, 108, 92>> -> <<27, 27>>
      [] <<r, g, b>> = <<127, 114, 102>> -> <<28, 19>>
      [] <<r, g, b>> = <<139, 90, 46>> -> <<28, 66>>
      [] <<r, g, b>> = <<139, 94, 54>> -> <<28, 61>>
      [] <<r, g, b>> = <<139, 98, 63>> -> <<27, 54>>
      [] <<r, g, b>> = <<139, 102, 71>> -> <<27, 48>>
      [] <<r, g, b>> = <<148, 148, 255>> -> <<240, 41>>
      [] <<r, g, b>> = <<152, 102, 59>> -> <<27, 61>>
      [] <<r, g, b>> = <<152, 107, 68>> -> <<27, 55>>
      [] <<r, g, b>> = <<152, 112, 78>> -> <<27, 48>>
      [] <<r, g, b>> = <<154, 154, 255>> -> <<240, 39>>
      [] <<r, g, b>> = <<161, 160, 255>> -> <<240, 37>>
      [] <<r, g, b>> = <<162, 109, 63>> -> <<27, 61>>
      [] <<r, g, b>> = <<162, 114, 73>> -> <<27, 54>>
      [] <<r, g, b>> = <<162, 119, 83>> -> <<27, 48>>
      [] <<r, g, b>> = <<165, 165, 255>> -> <<240, 35>>
      [] <<r, g, b>> = <<171, 171, 255>> -> <<240, 32>>
      [] <<r, g, b>> = <<175, 129, 90>> -> <<27, 48>>
      [] <<r, g, b>> = <<175, 175, 255>> -> <<240, 31>>
      [] <<r, g, b>> = <<185, 136, 95>> -> <<27, 48>>
      [] <<r, g, b>> = <<193, 189, 89>> -> <<57, 53>>
      [] <<r, g, b>> = <<218, 176, 101>> -> <<38, 53>>

\* api.HSToXY
HSToXY(hue, sat) ==
    CASE <<hue, sat>> = <<911, 61>> -> <<399430, 328571>>
      [] <<hue, sat>> = <<911, 86>> -> <<439756, 327533>>
      [] <<hue, sat>> = <<911, 111>> -> <<484856, 325759>>
      [] <<hue, sat>> = <<1093, 81>> -> <<430325, 329341>>
      [] <<hue, sat>> = <<1093, 88>> -> <<442121, 329093>>
      [] <<hue, sat>> = <<1093, 106>> -> <<474087, 328155>>
      [] <<hue, sat>> = <<1093, 131>> -> <<521471, 326017>>
      [] <<hue, sat>> = <<1275, 46>> -> <<376899, 330665>>
      [] <<hue, sat>> = <<1275, 54>> -> <<388009, 330819>>
      [] <<hue, sat>> = <<1275, 68>> -> <<408715, 330953>>
      [] <<hue, sat>> = <<1275, 71>> -> <<413360, 330955>>
      [] <<hue, sat>> = <<1275, 79>> -> <<426103, 330913>>
      [] <<hue, sat>> = <<1275, 89>> -> <<442735, 330749>>
      [] <<hue, sat>> = <<1275, 96>> -> <<454818, 330552>>
      [] <<hue, sat>> = <<1275, 104>> -> <<469038, 330235>>
      [] <<hue, sat>> = <<1275, 114>> -> <<487357, 329691>>
      [] <<hue, sat>> = <<1275, 121>> -> <<500479, 329204>>
      [] <<hue, sat>> = <<1275, 129>> -> <<515704, 328534>>
      [] <<hue, sat>> = <<1275, 139>> -> <<534940, 327517>>
      [] <<hue, sat>> = <<1275, 146>> -> <<548439, 326682>>
      [] <<hue, sat>> = <<1275, 154>> -> <<563781, 325602>>
      [] <<hue, sat>> = <<1275, 164>> -> <<582635, 324062>>
      [] <<hue, sat>> = <<1275, 171>> -> <<595481, 322862>>
      [] <<hue, sat>> = <<1275, 189>> -> <<626410, 319348>>
      [] <<hue, sat>> = <<1275, 196>> -> <<637350, 317836>>
      [] <<hue, sat>> = <<1457, 104>> -> <<467642, 332196>>
      [] <<hue, sat>> = <<1457, 129>> -> <<513794, 330861>>
      [] <<hue, sat>> = <<1457, 142>> -> <<538562, 329640>>
      [] <<hue, sat>> = <<1457, 154>> -> <<561404, 328160>>
      [] <<hue, sat>> = <<1457, 167>> -> <<585624, 326166>>
      [] <<hue, sat>> = <<1457, 179>> -> <<606991, 323969>>
      [] <<hue, sat>> = <<1457, 192>> -> <<628479, 321233>>
      [] <<hue, sat>> = <<1457, 204>> -> <<646275, 318428>>
      [] <<hue, sat>> = <<1639, 185>> -> <<614385, 325394>>
      [] <<hue, sat>> = <<3277, 59>> -> <<388522, 343391>>
      [] <<hue, sat>> = <<3277, 84>> -> <<423071, 348718>>
      [] <<hue, sat>> = <<3277, 109>> -> <<461313, 352910>>
      [] <<hue, sat>> = <<3277, 134>> -> <<502313, 355333>>
      [] <<hue, sat>> = <<3277, 159>> -> <<544339, 355308>>
      [] <<hue, sat>> = <<3277, 184>> -> <<584854, 352266>>
      [] <<hue, sat>> = <<3277, 209>> -> <<620818, 345969>>
      [] <<hue, sat>> = <<4551, 36>> -> <<358080, 342726>>
      [] <<hue, sat>> = <<4551, 61>> -> <<386649, 352117>>
      [] <<hue, sat>> = <<4551, 86>> -> <<418488, 360888>>
      [] <<hue, sat>> = <<4551, 111>> -> <<453207, 368409>>
      [] <<hue, sat>> = <<4551, 136>> -> <<489939, 373900>>
      [] <<hue, sat>> = <<4733, 56>> -> <<380100, 351353>>
      [] <<hue, sat>> = <<4733, 63>> -> <<388406, 354072>>
      [] <<hue, sat>> = <<4733, 81>> -> <<410890, 360798>>
      [] <<hue, sat>> = <<4733, 106>> -> <<444560, 369131>>
      [] <<hue, sat>> = <<4733, 113>> -> <<454413, 371163>>
      [] <<hue, sat>> = <<4733, 131>> -> <<480353, 375583>>
      [] <<hue, sat>> = <<4733, 156>> -> <<516975, 379294>>
      [] <<hue, sat>> = <<4915, 21>> -> <<342210, 337784>>
      [] <<hue, sat>> = <<4915, 29>> -> <<350198, 341150>>
      [] <<hue, sat>> = <<4915, 43>> -> <<364950, 347034>>
      [] <<hue, sat>> = <<4915, 46>> -> <<368239, 348289>>
      [] <<hue, sat>> = <<4915, 54>> -> <<377233, 351611>>
      [] <<hue, sat>> = <<4915, 64>> -> <<388925, 355699>>
      [] <<hue, sat>> = <<4915, 71>> -> <<397400, 358501>>
      [] <<hue, sat>> = <<4915, 79>> -> <<407371, 361621>>
      [] <<hue, sat>> = <<4915, 89>> -> <<420241, 365369>>
      [] <<hue, sat>> = <<4915, 93>> -> <<425508, 366811>>
      [] <<hue, sat>> = <<4915, 96>> -> <<429501, 367868>>
      [] <<hue, sat>> = <<4915, 104>> -> <<440314, 370574>>
      [] <<hue, sat>> = <<4915, 114>> -> <<454134, 373692>>
      [] <<hue, sat>> = <<4915, 121>> -> <<463975, 375671>>
      [] <<hue, sat>> = <<4915, 129>> -> <<475350, 377701>>
      [] <<hue, sat>> = <<4915, 139>> -> <<489695, 379846>>
      [] <<hue, sat>> = <<4915, 146>> -> <<499769, 381059>>
      [] <<hue, sat>> = <<4915, 154>> -> <<511258, 382128>>
      [] <<hue, sat>> = <<4915, 164>> -> <<525492, 382948>>
      [] <<hue, sat>> = <<4915, 171>> -> <<535308, 383158>>
      [] <<hue, sat>> = <<4915, 179>> -> <<546309, 383010>>
      [] <<hue, sat>> = <<4915, 189>> -> <<559632, 382221>>
      [] <<hue, sat>> = <<4915, 196>> -> <<568608, 381259>>
      [] <<hue, sat>> = <<4915, 214>> -> <<590034, 377228>>
      [] <<hue, sat>> = <<4915, 221>> -> <<597619, 375069>>
      [] <<hue, sat>> = <<5097, 79>> -> <<406427, 363168>>
      [] <<hue, sat>> = <<5097, 104>> -> <<438852, 372627>>
      [] <<hue, sat>> = <<5097, 117>> -> <<456560, 376875>>
      [] <<hue, sat>> = <<5097, 129>> -> <<473259, 380249>>
      [] <<hue, sat>> = <<5097, 142>> -> <<491557, 383193>>
      [] <<hue, sat>> = <<5097, 154>> -> <<508453, 385147>>
      [] <<hue, sat>> = <<5097, 167>> -> <<526525, 386326>>
      [] <<hue, sat>> = <<5097, 179>> -> <<542763, 386461>>
      [] <<hue, sat>> = <<5097, 192>> -> <<559603, 385503>>
      [] <<hue, sat>> = <<5097, 204>> -> <<574221, 383565>>
      [] <<hue, sat>> = <<5097, 217>> -> <<588814, 380325>>
      [] <<hue, sat>> = <<5097, 229>> -> <<600965, 376328>>
      [] <<hue, sat>> = <<5279, 160>> -> <<513846, 388955>>
      [] <<hue, sat>> = <<5279, 210>> -> <<576715, 386154>>
      [] <<hue, sat>> = <<6917, 34>> -> <<352134, 350357>>
      [] <<hue, sat>> = <<6917, 59>> -> <<376289, 366226>>
      [] <<hue, sat>> = <<6917, 84>> -> <<402340, 381641>>
      [] <<hue, sat>> = <<6917, 109>> -> <<429808, 395865>>
      [] <<hue, sat>> = <<6917, 134>> -> <<457925, 408005>>
      [] <<hue, sat>> = <<6917, 159>> -> <<485644, 417091>>
      [] <<hue, sat>> = <<6917, 184>> -> <<511721, 422223>>
      [] <<hue, sat>> = <<6917, 209>> -> <<534904, 422768>>
      [] <<hue, sat>> = <<6917, 234>> -> <<554222, 418586>>
      [] <<hue, sat>> = <<8191, 61>> -> <<373831, 375731>>
      [] <<hue, sat>> = <<8191, 68>> -> <<380226, 381088>>
      [] <<hue, sat>> = <<8191, 86>> -> <<397003, 394582>>
      [] <<hue, sat>> = <<8191, 111>> -> <<420738, 412163>>
      [] <<hue, sat>> = <<8191, 142>> -> <<449784, 430786>>
      [] <<hue, sat>> = <<8373, 81>> -> <<391331, 392457>>
      [] <<hue, sat>> = <<8373, 88>> -> <<397786, 397757>>
      [] <<hue, sat>> = <<8373, 106>> -> <<414493, 410856>>
      [] <<hue, sat>> = <<8373, 131>> -> <<437510, 427231>>
      [] <<hue, sat>> = <<8373, 162>> -> <<464512, 443260>>
      [] <<hue, sat>> = <<8555, 46>> -> <<359580, 365911>>
      [] <<hue, sat>> = <<8555, 54>> -> <<366453, 372412>>
      [] <<hue, sat>> = <<8555, 68>> -> <<378733, 383714>>
      [] <<hue, sat>> = <<8555, 71>> -> <<381401, 386114>>
      [] <<hue, sat>> = <<8555, 79>> -> <<388562, 392456>>
      [] <<hue, sat>> = <<8555, 89>> -> <<397589, 400233>>
      [] <<hue, sat>> = <<8555, 96>> -> <<403936, 405549>>
      [] <<hue, sat>> = <<8555, 104>> -> <<411196, 411466>>
      [] <<hue, sat>> = <<8555, 114>> -> <<420243, 418577>>
      [] <<hue, sat>> = <<8555, 121>> -> <<426530, 423334>>
      [] <<hue, sat>> = <<8555, 127>> -> <<431873, 427249>>
      [] <<hue, sat>> = <<8555, 129>> -> <<433642, 428519>>
      [] <<hue, sat>> = <<8555, 132>> -> <<436283, 430387>>
      [] <<hue, sat>> = <<8555, 137>> -> <<440646, 433401>>
      [] <<hue, sat>> = <<8555, 139>> -> <<442377, 434571>>
      [] <<hue, sat>> = <<8555, 146>> -> <<448361, 438495>>
      [] <<hue, sat>> = <<8555, 154>> -> <<455037, 442634>>
      [] <<hue, sat>> = <<8555, 164>> -> <<463095, 447249>>
      [] <<hue, sat>> = <<8555, 171>> -> <<468517, 450086>>
      [] <<hue, sat>> = <<8555, 189>> -> <<481498, 455787>>
      [] <<hue, sat>> = <<8555, 196>> -> <<486129, 457357>>
      [] <<hue, sat>> = <<8737, 48>> -> <<360830, 368455>>
      [] <<hue, sat>> = <<8737, 104>> -> <<409761, 413482>>
      [] <<hue, sat>> = <<8737, 129>> -> <<431596, 431011>>
      [] <<hue, sat>> = <<8737, 142>> -> <<442556, 439021>>
      [] <<hue, sat>> = <<8737, 154>> -> <<452289, 445591>>
      [] <<hue, sat>> = <<8737, 167>> -> <<462303, 451702>>
      [] <<hue, sat>> = <<8737, 179>> -> <<470956, 456326>>
      [] <<hue, sat>> = <<8737, 182>> -> <<473021, 457322>>
      [] <<hue, sat>> = <<8737, 192>> -> <<479595, 460161>>
      [] <<hue, sat>> = <<8737, 204>> -> <<486819, 462576>>
      [] <<hue, sat>> = <<8919, 185>> -> <<471366, 461758>>
      [] <<hue, sat>> = <<8919, 198>> -> <<479220, 465249>>
      [] <<hue, sat>> = <<8919, 213>> -> <<487198, 467696>>
      [] <<hue, sat>> = <<10557, 59>> -> <<364152, 388882>>
      [] <<hue, sat>> = <<10557, 84>> -> <<381900, 414104>>
      [] <<hue, sat>> = <<10557, 109>> -> <<398925, 437972>>
      [] <<hue, sat>> = <<10557, 134>> -> <<414546, 459479>>
      [] <<hue, sat>> = <<10557, 159>> -> <<428099, 477663>>
      [] <<hue, sat>> = <<10557, 184>> -> <<439034, 491755>>
      [] <<hue, sat>> = <<10557, 209>> -> <<447021, 501326>>
      [] <<hue, sat>> = <<11831, 86>> -> <<372770, 422519>>
      [] <<hue, sat>> = <<12013, 88>> -> <<372131, 425375>>
      [] <<hue, sat>> = <<12013, 106>> -> <<381386, 444989>>
      [] <<hue, sat>> = <<12195, 68>> -> <<359889, 403472>>
      [] <<hue, sat>> = <<12195, 71>> -> <<361494, 406869>>
      [] <<hue, sat>> = <<12195, 79>> -> <<365725, 415917>>
      [] <<hue, sat>> = <<12195, 96>> -> <<374399, 434972>>
      [] <<hue, sat>> = <<12195, 104>> -> <<378290, 443786>>
      [] <<hue, sat>> = <<12195, 114>> -> <<382941, 454592>>
      [] <<hue, sat>> = <<12195, 121>> -> <<386036, 461981>>
      [] <<hue, sat>> = <<12195, 129>> -> <<389392, 470212>>
      [] <<hue, sat>> = <<12195, 132>> -> <<390596, 473232>>
      [] <<hue, sat>> = <<12195, 137>> -> <<392535, 478178>>
      [] <<hue, sat>> = <<12195, 139>> -> <<393286, 480125>>
      [] <<hue, sat>> = <<12195, 146>> -> <<395795, 486780>>
      [] <<hue, sat>> = <<12195, 164>> -> <<401344, 502644>>
      [] <<hue, sat>> = <<12195, 171>> -> <<403125, 508268>>
      [] <<hue, sat>> = <<12377, 129>> -> <<386721, 471678>>
      [] <<hue, sat>> = <<12377, 154>> -> <<395189, 496154>>
      [] <<hue, sat>> = <<12377, 167>> -> <<398596, 507533>>
      [] <<hue, sat>> = <<12377, 179>> -> <<401071, 517062>>
      [] <<hue, sat>> = <<12559, 185>> -> <<398066, 524415>>
      [] <<hue, sat>> = <<12559, 198>> -> <<399302, 533366>>
      [] <<hue, sat>> = <<14016, 134>> -> <<362911, 491422>>
      [] <<hue, sat>> = <<14197, 84>> -> <<349746, 428390>>
      [] <<hue, sat>> = <<14197, 109>> -> <<355795, 460867>>
      [] <<hue, sat>> = <<14197, 134>> -> <<360014, 493070>>
      [] <<hue, sat>> = <<14197, 159>> -> <<361858, 523653>>
      [] <<hue, sat>> = <<14197, 184>> -> <<360877, 551147>>
      [] <<hue, sat>> = <<15471, 86>> -> <<337947, 435608>>
      [] <<hue, sat>> = <<15653, 106>> -> <<337214, 465148>>
      [] <<hue, sat>> = <<15835, 96>> -> <<334828, 451430>>
      [] <<hue, sat>> = <<15835, 104>> -> <<334955, 463212>>
      [] <<hue, sat>> = <<15835, 121>> -> <<334510, 488627>>
      [] <<hue, sat>> = <<15835, 139>> -> <<332834, 515694>>
      [] <<hue, sat>> = <<15835, 146>> -> <<331811, 526135>>
      [] <<hue, sat>> = <<16017, 154>> -> <<326856, 540196>>
      [] <<hue, sat>> = <<16017, 167>> -> <<323523, 559296>>
      [] <<hue, sat>> = <<16199, 185>> -> <<313212, 587553>>
      [] <<hue, sat>> = <<17656, 134>> -> <<303591, 525170>>
      [] <<hue, sat>> = <<17837, 109>> -> <<309164, 482717>>
      [] <<hue, sat>> = <<17837, 134>> -> <<300640, 526849>>
      [] <<hue, sat>> = <<17837, 159>> -> <<289399, 571642>>
      [] <<hue, sat>> = <<19475, 104>> -> <<290712, 483045>>
      [] <<hue, sat>> = <<19475, 121>> -> <<281882, 515844>>
      [] <<hue, sat>> = <<19475, 139>> -> <<271294, 551903>>
      [] <<hue, sat>> = <<19657, 154>> -> <<258341, 584357>>
      [] <<hue, sat>> = <<19657, 167>> -> <<249173, 610559>>
      [] <<hue, sat>> = <<21296, 134>> -> <<246745, 557511>>
      [] <<hue, sat>> = <<21477, 134>> -> <<244135, 558996>>
      [] <<hue, sat>> = <<23115, 121>> -> <<244107, 509366>>
      [] <<hue, sat>> = <<23297, 154>> -> <<217337, 573346>>
      [] <<hue, sat>> = <<24936, 134>> -> <<226016, 496836>>
      [] <<hue, sat>> = <<25117, 134>> -> <<225238, 492909>>
      [] <<hue, sat>> = <<28576, 134>> -> <<210603, 419021>>
      [] <<hue, sat>> = <<29130, 104>> -> <<232305, 386360>>
      [] <<hue, sat>> = <<32770, 79>> -> <<241396, 335396>>
      [] <<hue, sat>> = <<32770, 104>> -> <<218578, 337182>>
      [] <<hue, sat>> = <<32770, 129>> -> <<198425, 338758>>
      [] <<hue, sat>> = <<36410, 54>> -> <<271295, 310772>>
      [] <<hue, sat>> = <<36410, 79>> -> <<247285, 300274>>
      [] <<hue, sat>> = <<36410, 104>> -> <<224065, 288495>>
      [] <<hue, sat>> = <<36410, 129>> -> <<202454, 275549>>
      [] <<hue, sat>> = <<36410, 154>> -> <<183326, 261650>>
      [] <<hue, sat>> = <<40050, 29>> -> <<298700, 308475>>
      [] <<hue, sat>> = <<40050, 54>> -> <<276458, 288006>>
      [] <<hue, sat>> = <<40050, 79>> -> <<253206, 264962>>
      [] <<hue, sat>> = <<40050, 104>> -> <<229583, 239535>>
      [] <<hue, sat>> = <<40050, 129>> -> <<206492, 212208>>
      [] <<hue, sat>> = <<40050, 154>> -> <<185076, 183812>>
      [] <<hue, sat>> = <<40050, 179>> -> <<166601, 155517>>
      [] <<hue, sat>> = <<43690, 4>> -> <<320058, 324901>>
      [] <<hue, sat>> = <<43690, 29>> -> <<302002, 297016>>
      [] <<hue, sat>> = <<43690, 54>> -> <<281570, 265462>>
      [] <<hue, sat>> = <<43690, 79>> -> <<258974, 230564>>
      [] <<hue, sat>> = <<43690, 104>> -> <<234801, 193232>>
      [] <<hue, sat>> = <<43690, 129>> -> <<210130, 155130>>
      [] <<hue, sat>> = <<43690, 154>> -> <<186540, 118700>>
      [] <<hue, sat>> = <<43690, 179>> -> <<165926, 86864>>
      [] <<hue, sat>> = <<43690, 204>> -> <<150072, 62379>>
      [] <<hue, sat>> = <<47330, 29>> -> <<312747, 297077>>
      [] <<hue, sat>> = <<47330, 54>> -> <<302310, 267137>>
      [] <<hue, sat>> = <<47330, 78>> -> <<290560, 236695>>
      [] <<hue, sat>> = <<47330, 79>> -> <<290033, 235398>>
      [] <<hue, sat>> = <<47330, 81>> -> <<288969, 232801>>
      [] <<hue, sat>> = <<47330, 88>> -> <<285152, 223661>>
      [] <<hue, sat>> = <<47330, 93>> -> <<282336, 217095>>
      [] <<hue, sat>> = <<47330, 99>> -> <<278860, 209188>>
      [] <<hue, sat>> = <<47330, 104>> -> <<275883, 202587>>
      [] <<hue, sat>> = <<47330, 129>> -> <<259982, 169784>>
      [] <<hue, sat>> = <<47330, 154>> -> <<242664, 138417>>
      [] <<hue, sat>> = <<47330, 160>> -> <<238356, 131284>>
      [] <<hue, sat>> = <<47330, 179>> -> <<224505, 110138>>
      [] <<hue, sat>> = <<47330, 180>> -> <<223771, 109095>>
      [] <<hue, sat>> = <<50970, 54>> -> <<323136, 268819>>
      [] <<hue, sat>> = <<50970, 79>> -> <<321664, 240321>>
      [] <<hue, sat>> = <<50970, 88>> -> <<320822, 230155>>
      [] <<hue, sat>> = <<50970, 93>> -> <<320277, 224552>>
      [] <<hue, sat>> = <<50970, 99>> -> <<319550, 217882>>
      [] <<hue, sat>> = <<50970, 104>> -> <<318881, 212378>>
      [] <<hue, sat>> = <<50970, 129>> -> <<314641, 185851>>
      [] <<hue, sat>> = <<50970, 154>> -> <<308859, 161672>>
      [] <<hue, sat>> = <<50970, 180>> -> <<301212, 139985>>
      [] <<hue, sat>> = <<54610, 79>> -> <<352871, 245179>>
      [] <<hue, sat>> = <<54610, 99>> -> <<359606, 226441>>
      [] <<hue, sat>> = <<54610, 104>> -> <<361197, 222014>>
      [] <<hue, sat>> = <<54610, 129>> -> <<368503, 201683>>
      [] <<hue, sat>> = <<55891, 121>> -> <<381584, 218957>>
      [] <<hue, sat>> = <<57893, 134>> -> <<416877, 229749>>
      [] <<hue, sat>> = <<58250, 104>> -> <<397871, 251591>>
      [] <<hue, sat>> = <<59531, 96>> -> <<403685, 267346>>
      [] <<hue, sat>> = <<59531, 104>> -> <<411628, 262691>>
      [] <<hue, sat>> = <<59531, 121>> -> <<428949, 253425>>
      [] <<hue, sat>> = <<59531, 139>> -> <<447776, 244784>>
      [] <<hue, sat>> = <<59531, 146>> -> <<455178, 241816>>
      [] <<hue, sat>> = <<59713, 154>> -> <<467269, 240916>>
      [] <<hue, sat>> = <<61533, 109>> -> <<440398, 278442>>
      [] <<hue, sat>> = <<61533, 134>> -> <<475001, 268971>>
      [] <<hue, sat>> = <<61533, 159>> -> <<511047, 261853>>
      [] <<hue, sat>> = <<61890, 104>> -> <<437748, 283769>>
      [] <<hue, sat>> = <<62807, 86>> -> <<421554, 298289>>
      [] <<hue, sat>> = <<62989, 106>> -> <<453229, 293110>>
      [] <<hue, sat>> = <<63171, 71>> -> <<403339, 306036>>
      [] <<hue, sat>> = <<63171, 79>> -> <<414528, 303391>>
      [] <<hue, sat>> = <<63171, 96>> -> <<439700, 297893>>
      [] <<hue, sat>> = <<63171, 104>> -> <<452164, 295401>>
      [] <<hue, sat>> = <<63171, 114>> -> <<468244, 292413>>
      [] <<hue, sat>> = <<63171, 121>> -> <<479794, 290426>>
      [] <<hue, sat>> = <<63171, 129>> -> <<493242, 288285>>
      [] <<hue, sat>> = <<63171, 139>> -> <<510341, 285837>>
      [] <<hue, sat>> = <<63171, 146>> -> <<522434, 284301>>
      [] <<hue, sat>> = <<63171, 164>> -> <<553582, 281148>>
      [] <<hue, sat>> = <<63171, 171>> -> <<565545, 280275>>
      [] <<hue, sat>> = <<63353, 129>> -> <<496036, 290224>>
      [] <<hue, sat>> = <<63353, 154>> -> <<539826, 284883>>
      [] <<hue, sat>> = <<63353, 167>> -> <<562582, 282942>>
      [] <<hue, sat>> = <<63353, 179>> -> <<583088, 281767>>
      [] <<hue, sat>> = <<65173, 84>> -> <<438346, 316948>>
      [] <<hue, sat>> = <<65173, 109>> -> <<484122, 312653>>
      [] <<hue, sat>> = <<65173, 134>> -> <<533351, 308345>>
      [] <<hue, sat>> = <<65173, 159>> -> <<582997, 304380>>
      [] <<hue, sat>> = <<65173, 184>> -> <<628623, 301196>>

\* Hue and Saturation initialised from the current color of light l.
InitHS(l, hs) ==
    [AfterRGB(l.Color) EXCEPT !.Hue = (hs[1] * 65535) \div 360,
                    !.Saturation = (hs[2] * 254) \div 100,
                    !.Brightness = l.Brightness]

\* The hue of Color c rotated by 20 degrees, the target registered and the
\* command issued.
RotateHue(ls, rs, m, t, id, c, newHue) ==
    [lights |-> [ls EXCEPT ![id].Color = [c EXCEPT !.Hue = newHue,
                                                   !.Mode = ColorModeHS,
                                                   !.cacheValid = FALSE]],
     rooms |-> rs,
     ops |-> AddWithDirection(m, t, id, "color_xy",
                              XYV(HSToXY(newHue, c.Saturation)[1],
                                  HSToXY(newHue, c.Saturation)[2]), DirExact),
     cmds |-> <<SetColorHSCmd(id, newHue, c.Saturation)>>]

RotateHueUp(ls, rs, m, t, id, c) ==
    RotateHue(ls, rs, m, t, id, c, (c.Hue + 3640) % 65536)

\* case "]"
UpdateKeyHueUp(ls, rs, m, t) ==
    IF LightSelected /\ ls[SelectedLight].SupportsColor /\ ~ls[SelectedLight].Color.nil
    THEN IF ls[SelectedLight].Color.Mode # ColorModeHS
         THEN RotateHueUp(ls, rs, m, t, SelectedLight,
                          InitHS(ls[SelectedLight],
                                 rgbToHueSat(RGB(ls[SelectedLight].Color)[1],
                                             RGB(ls[SelectedLight].Color)[2],
                                             RGB(ls[SelectedLight].Color)[3])))
         ELSE RotateHueUp(ls, rs, m, t, SelectedLight, ls[SelectedLight].Color)
    ELSE NoChange(ls, rs, m)

\* The Color a hue or saturation key works on: Hue and Saturation initialised
\* from the current color unless the mode is HS already.
HSColor(l) ==
    IF l.Color.Mode # ColorModeHS
    THEN InitHS(l, rgbToHueSat(RGB(l.Color)[1], RGB(l.Color)[2], RGB(l.Color)[3]))
    ELSE l.Color

RotateHueDown(ls, rs, m, t, id, c) ==
    RotateHue(ls, rs, m, t, id, c, (c.Hue - 3640 + 65536) % 65536)

\* case "["
UpdateKeyHueDown(ls, rs, m, t) ==
    IF LightSelected /\ ls[SelectedLight].SupportsColor /\ ~ls[SelectedLight].Color.nil
    THEN RotateHueDown(ls, rs, m, t, SelectedLight, HSColor(ls[SelectedLight]))
    ELSE NoChange(ls, rs, m)

\* The saturation of Color c set to newSat, the target registered and the
\* command issued.
Saturate(ls, rs, m, t, id, c, newSat) ==
    [lights |-> [ls EXCEPT ![id].Color = [c EXCEPT !.Saturation = newSat,
                                                   !.Mode = ColorModeHS,
                                                   !.cacheValid = FALSE]],
     rooms |-> rs,
     ops |-> AddWithDirection(m, t, id, "color_xy",
                              XYV(HSToXY(c.Hue, newSat)[1],
                                  HSToXY(c.Hue, newSat)[2]), DirExact),
     cmds |-> <<SetColorHSCmd(id, c.Hue, newSat)>>]

\* case "-"
UpdateKeySatDown(ls, rs, m, t) ==
    IF LightSelected /\ ls[SelectedLight].SupportsColor /\ ~ls[SelectedLight].Color.nil
    THEN Saturate(ls, rs, m, t, SelectedLight, HSColor(ls[SelectedLight]),
                  Max(0, HSColor(ls[SelectedLight]).Saturation - 25))
    ELSE NoChange(ls, rs, m)

\* case "+", "="
UpdateKeySatUp(ls, rs, m, t) ==
    IF LightSelected /\ ls[SelectedLight].SupportsColor /\ ~ls[SelectedLight].Color.nil
    THEN Saturate(ls, rs, m, t, SelectedLight, HSColor(ls[SelectedLight]),
                  Min(254, HSColor(ls[SelectedLight]).Saturation + 25))
    ELSE NoChange(ls, rs, m)

\* case "a" (on = TRUE) and case "x" (on = FALSE)
UpdateKeyAll(ls, rs, m, t, on) ==
    IF HasSelectedItem /\ rs[SelectedRoom].GroupedLightID # ""
    THEN SetRoomOn(ls, rs, m, t, SelectedRoom, on)
    ELSE NoChange(ls, rs, m)

(***************************************************************************)
(* Model.Update, case messages.DataFetchedMsg.                              *)
(***************************************************************************)
DataFetchedMsg(rs, ls) == [Rooms |-> rs, Lights |-> ls]

\* The place of a room's name in the alphabet.
NameRank(r) == CASE r.ID = "r1" -> 1 [] r.ID = "r2" -> 2 [] r.ID = "r3" -> 3

\* sort.Slice(rooms, by Name) of MainModel.SetData, which sorts the slice of
\* the message and so Model.rooms too.
RECURSIVE InsertRoom(_, _)
InsertRoom(r, sorted) ==
    IF sorted = << >> THEN <<r>>
    ELSE IF NameRank(r) < NameRank(Head(sorted)) THEN <<r>> \o sorted
    ELSE <<Head(sorted)>> \o InsertRoom(r, Tail(sorted))

RECURSIVE SortRooms(_)
SortRooms(rs) ==
    IF rs = << >> THEN << >> ELSE InsertRoom(Head(rs), SortRooms(Tail(rs)))

\* rebuildLightList: selectedIndex kept inside the new items.
ClampSelected(sel, rs) ==
    IF sel >= Len(BuildItems(rs, 1)) THEN Max(0, Len(BuildItems(rs, 1)) - 1) ELSE sel

\* Mutant of the handler: a light that is on in the model keeps its values.
UpdateDataFetchedMsg_KeepsLit(ls, rs, sel, msg) ==
    [lights |-> [id \in DOMAIN msg.Lights |->
                    IF id \in DOMAIN ls /\ ls[id].On THEN ls[id] ELSE msg.Lights[id]],
     rooms |-> SortRooms(msg.Rooms),
     selectedIndex |-> ClampSelected(sel, SortRooms(msg.Rooms)),
     loading |-> FALSE]

\* case messages.DataFetchedMsg with the subscription running, and
\* MainModel.SetData: the rooms and lights of the message.
UpdateDataFetchedMsg(ls, rs, sel, msg) ==
    [lights |-> msg.Lights,
     rooms |-> SortRooms(msg.Rooms),
     selectedIndex |-> ClampSelected(sel, SortRooms(msg.Rooms)),
     loading |-> FALSE]

\* The mutant of DataFetchedCmds that arms a listenForEvents with every
\* DataFetchedMsg.
DataFetchedCmds_AlwaysListens(st) == <<ListenForEventsCmd>>

\* case messages.DataFetchedMsg, the commands: if Model.events is nil the
\* subscription is made and started and one listenForEvents is returned.
DataFetchedCmds(st) == IF st THEN << >> ELSE <<ListenForEventsCmd>>

\* The mutant of DataFetchedPending that starts a new tracker with the new
\* data.
DataFetchedPending_Fresh(m) == NewPendingTracker

\* case messages.DataFetchedMsg, the tracker: the case assigns rooms and
\* scenes and does not touch m.pending, which NewModel created.
DataFetchedPending(m) == m

(***************************************************************************)
(* Config (package config): the bridges the user has paired.                *)
(***************************************************************************)
BridgeConfig(host, username, bridgeID) ==
    [Host |-> host, Username |-> username, BridgeID |-> bridgeID]

\* &Config{}
EmptyConfig == [Bridges |-> << >>, LastBridgeID |-> ""]

\* The index of the first entry of bs with BridgeID id, 0 when there is none.
RECURSIVE IndexOfBridge(_, _, _)
IndexOfBridge(bs, id, i) ==
    IF i > Len(bs) THEN 0
    ELSE IF bs[i].BridgeID = id THEN i
    ELSE IndexOfBridge(bs, id, i + 1)

\* Mutant of AddBridge: the bridge is appended whatever the list holds.
AddBridge_AlwaysAppends(c, bridge) ==
    [c EXCEPT !.Bridges = Append(c.Bridges, bridge)]

\* Config.AddBridge
AddBridge(c, bridge) ==
    IF IndexOfBridge(c.Bridges, bridge.BridgeID, 1) # 0
    THEN [c EXCEPT !.Bridges[IndexOfBridge(c.Bridges, bridge.BridgeID, 1)] = bridge]
    ELSE [c EXCEPT !.Bridges = Append(c.Bridges, bridge)]

\* Config.RemoveBridge
RemoveBridge(c, bridgeID) ==
    IF IndexOfBridge(c.Bridges, bridgeID, 1) # 0
    THEN [c EXCEPT !.Bridges =
            SubSeq(c.Bridges, 1, IndexOfBridge(c.Bridges, bridgeID, 1) - 1)
            \o SubSeq(c.Bridges, IndexOfBridge(c.Bridges, bridgeID, 1) + 1,
                      Len(c.Bridges))]
    ELSE c

\* The bridges the callers pass: three ids, each seen at two addresses.
BridgeIDs == {"b1", "b2", "b3"}
BridgeHosts == {"10.0.0.1", "10.0.0.2"}

NoConfigCall == [fn |-> "none", bridge |-> BridgeConfig("", "", ""), pre |-> << >>, n |-> 0]

InitConfig ==
    /\ config = EmptyConfig
    /\ configCall = NoConfigCall

DoAddBridge(bridge) ==
    /\ configCall.n < MaxConfigCalls
    /\ config' = AddBridge(config, bridge)
    /\ configCall' = [fn |-> "AddBridge", bridge |-> bridge, pre |-> config.Bridges,
                      n |-> configCall.n + 1]
    /\ UNCHANGED <<listenVars, loopVars, streamVars, scanned>>

DoRemoveBridge(bridgeID) ==
    /\ configCall.n < MaxConfigCalls
    /\ config' = RemoveBridge(config, bridgeID)
    /\ configCall' = [fn |-> "RemoveBridge", bridge |-> BridgeConfig("", "", bridgeID),
                      pre |-> config.Bridges, n |-> configCall.n + 1]
    /\ UNCHANGED <<listenVars, loopVars, streamVars, scanned>>

(***************************************************************************)
(* The update loop as a state machine.                                      *)
(***************************************************************************)
\* Incoming field values of the events.
OnEchoes == {None, Some(TRUE), Some(FALSE)}
BrightnessEchoes == {None, Some(45), Some(55), Some(65), Some(75), Some(80)}
ColorTempEchoes == {None, Some(0), Some(300), Some(351), Some(501)}
ColorXYEchoes == {None, Some(<<163800, 83500>>), Some(<<414546, 459479>>)}

\* The number of fields a message carries.
FieldCount(msg) ==
    Len(msg.On) + Len(msg.Brightness) + Len(msg.ColorTemp) + Len(msg.ColorXY)

\* A message for a light id the model does not hold.
UnknownLightMsg == LightUpdateMsg("lx", Some(TRUE), None, None, None)

\* The events of the brightness scenario: on and brightness echoes.
EventMsgs ==
    {msg \in {LightUpdateMsg(id, on, b, None, None) :
                 id \in LightIDs, on \in OnEchoes, b \in BrightnessEchoes} :
        FieldCount(msg) <= MaxFields}
    \cup {UnknownLightMsg}

\* The lights the bridge reports: a bulb without color, a bulb with color
\* temperature only, and a color bulb (the bridge reports its xy, so its
\* Color starts in XY mode with Mirek 0).
PlainBulb(on, pct) == toModel(on, pct, None, None)
WhiteBulb(on, pct) == toModel(on, pct, None, Some(300))
ColorBulb(on, pct) == toModel(on, pct, Some(<<457300, 410000>>), Some(300))

\* HueBridge.FetchAll: every room's state is computed from its lights.
FetchAll(rs, ls) == [i \in 1..Len(rs) |-> UpdateState(rs[i], ls)]

\* Nothing handled yet; otherwise the kind of message, the key or light id
\* it names, the color_temp and color_xy values it carries and whether it
\* set updated.
NoHandled == [kind |-> "none", id |-> "", ct |-> None, xy |-> None, updated |-> FALSE]

\* NewEventSubscription and Start: no response, done open, running, an empty
\* batch, no timer, and the run task at the top of its loop.  closes counts
\* the close(s.done) calls and spawned the run tasks started.
NewEventSubscription ==
    [pc |-> "top", resp |-> "nil", done |-> FALSE, running |-> TRUE,
     eventBatch |-> << >>, batchTimer |-> "nil", closes |-> 0, spawned |-> 1]

\* NewEventSubscription alone: not running, no run task.
Unstarted == [NewEventSubscription EXCEPT !.pc = "none", !.running = FALSE, !.spawned = 0]

\* Start(ctx) on subscription s: nothing if it is running; otherwise running
\* is set and a run task started.  A run task started after a Stop finds
\* done closed and returns at once, so pc follows the first one.
StartSub(s) ==
    IF s.running THEN s
    ELSE [s EXCEPT !.running = TRUE, !.spawned = @ + 1,
                   !.pc = IF s.spawned = 0 THEN "top" ELSE @]

\* Stop() on subscription s: nothing if it is not running; otherwise running
\* is cleared, done is closed and the response body, if there is one, too.
StopSub(s) ==
    IF ~s.running THEN s
    ELSE [s EXCEPT !.running = FALSE, !.done = TRUE, !.closes = @ + 1,
                   !.resp = IF s.resp = "open" THEN "closed" ELSE s.resp]

\* Nothing scanned yet.
NoScan == [payload |-> [kind |-> "none", envelopes |-> << >>], events |-> << >>]

InitSubscription ==
    /\ sub = NewEventSubscription
    /\ ctxDone = FALSE
    /\ deliveries = << >>
    /\ eventChan = << >>
    /\ inflight = None
    /\ lineNo = 0
    /\ processed = << >>
    /\ waited = TRUE
    /\ scanned = NoScan
    /\ started = TRUE
    /\ listeners = 1

\* The model after DataFetchedMsg with the rooms rs and the lights ls.
InitModel(rs, ls) ==
    /\ lights = ls
    /\ rooms = FetchAll(rs, ls)
    /\ selectedIndex = 0
    /\ cmd = << >>
    /\ keys = 0
    /\ events = 0
    /\ scn = 0
    /\ scnWrote = FALSE
    /\ err = ""
    /\ loading = FALSE
    /\ failed = 0
    /\ handled = NoHandled
    /\ InitSubscription
    /\ InitConfig

\* One room of one light at 50%, on or off, with or without a Color.
LoopRooms == <<Room("r1", <<"l1">>, "g1")>>

InitLoop ==
    /\ InitTracker
    /\ \E on \in BOOLEAN :
          \E l \in {PlainBulb(on, 50), ColorBulb(on, 50)} :
             InitModel(LoopRooms, [id \in {"l1"} |-> l])

\* The scenario: l1 on at 50% with nothing pending, "right" three times on
\* l1, then brightness events 55, 65, 75, 80 for l1 and nothing else.
ScenarioEchoes == <<55, 65, 75, 80>>

ScnAfterRight ==
    IF scn = 0 /\ LightSelected /\ SelectedLight = "l1" /\ lights["l1"].On
       /\ BrightnessPct(lights["l1"]) = 50 /\ DOMAIN ops = {}
    THEN 1
    ELSE IF scn \in {1, 2} /\ LightSelected /\ SelectedLight = "l1" THEN scn + 1
    ELSE -1

ScnLeft == IF scn = 0 THEN 0 ELSE -1

\* The scenario of the color modes: scn is 21 once "w" or "c" was pressed
\* on l1 while a color_xy op of l1 was pending, and 22 once that op is gone.
ScnColor(m, t) == IF HasPending(m, t, "l1", "color_xy").ret THEN 21 ELSE 22

ScnAfterColorTemp ==
    IF ~LightSelected THEN scn
    ELSE IF HasPending(ops, now, SelectedLight, "color_xy").ret THEN 21
    ELSE ScnLeft

ScnAfterHue == IF ~LightSelected THEN scn ELSE ScnLeft

ScnAfterEvent(msg) ==
    IF /\ scn >= 3 /\ scn < 3 + Len(ScenarioEchoes)
       /\ msg = LightUpdateMsg("l1", None, Some(ScenarioEchoes[scn - 2]), None, None)
    THEN scn + 1
    ELSE IF scn \in {21, 22}
    THEN ScnColor(UpdateLightUpdateMsg(lights, rooms, ops, now, err, msg).ops, now)
    ELSE -1

ScnAfterIdle == IF scn \in {21, 22} THEN 22 ELSE ScnLeft

\* case "up", "k"
KeyUp ==
    /\ selectedIndex > 0
    /\ selectedIndex' = selectedIndex - 1
    /\ cmd' = << >>
    /\ handled' = [NoHandled EXCEPT !.kind = "key", !.id = "up"]
    /\ UNCHANGED <<listenVars, configVars, scanned, streamVars, now, ops, trackerVars, lights, rooms, keys, events, scn, scnWrote, uiVars>>

\* case "down", "j"
KeyDown ==
    /\ selectedIndex < Len(Items) - 1
    /\ selectedIndex' = selectedIndex + 1
    /\ cmd' = << >>
    /\ handled' = [NoHandled EXCEPT !.kind = "key", !.id = "down"]
    /\ UNCHANGED <<listenVars, configVars, scanned, streamVars, now, ops, trackerVars, lights, rooms, keys, events, scn, scnWrote, uiVars>>

\* A key whose handler returned r = [lights, rooms, ops, cmds].
KeyHandled(key, r) ==
    /\ keys < MaxKeys
    /\ keys' = keys + 1
    /\ lights' = r.lights
    /\ rooms' = r.rooms
    /\ ops' = r.ops
    /\ cmd' = r.cmds
    /\ handled' = [NoHandled EXCEPT !.kind = "key", !.id = key]
    /\ UNCHANGED <<listenVars, configVars, scanned, streamVars, now, trackerVars, selectedIndex, events, scnWrote, uiVars>>

\* case "right", "l"
KeyRight ==
    /\ KeyHandled("right", UpdateKeyRight(lights, rooms, ops, now))
    /\ scn' = ScnAfterRight

\* case "left", "h"
KeyLeft ==
    /\ KeyHandled("left", UpdateKeyLeft(lights, rooms, ops, now))
    /\ scn' = ScnAfterIdle

\* case " "
KeySpace ==
    /\ KeyHandled(" ", UpdateKeySpace(lights, rooms, ops, now))
    /\ scn' = ScnLeft

\* case "0" .. "9"
KeyDigit(key) ==
    /\ KeyHandled(key, UpdateKeyDigit(lights, rooms, ops, now, key))
    /\ scn' = ScnLeft

\* case "w"
KeyWarmer ==
    /\ KeyHandled("w", UpdateKeyColorTemp(lights, rooms, ops, now, TRUE))
    /\ scn' = ScnAfterColorTemp

\* case "c"
KeyCooler ==
    /\ KeyHandled("c", UpdateKeyColorTemp(lights, rooms, ops, now, FALSE))
    /\ scn' = ScnAfterColorTemp

\* case "]"
KeyHueUp ==
    /\ KeyHandled("]", UpdateKeyHueUp(lights, rooms, ops, now))
    /\ scn' = ScnAfterHue

\* case "["
KeyHueDown ==
    /\ KeyHandled("[", UpdateKeyHueDown(lights, rooms, ops, now))
    /\ scn' = ScnAfterHue

\* case "-"
KeySatDown ==
    /\ KeyHandled("-", UpdateKeySatDown(lights, rooms, ops, now))
    /\ scn' = ScnAfterHue

\* case "+", "="
KeySatUp ==
    /\ KeyHandled("+", UpdateKeySatUp(lights, rooms, ops, now))
    /\ scn' = ScnAfterHue

\* case "a"
KeyAllOn ==
    /\ KeyHandled("a", UpdateKeyAll(lights, rooms, ops, now, TRUE))
    /\ scn' = ScnLeft

\* case "x"
KeyAllOff ==
    /\ KeyHandled("x", UpdateKeyAll(lights, rooms, ops, now, FALSE))
    /\ scn' = ScnLeft

\* A LightUpdateMsg msg whose handler returned r.
LightUpdateHandled(msg, r, scnNext) ==
    /\ lights' = r.lights
    /\ rooms' = r.rooms
    /\ ops' = r.ops
    /\ err' = r.err
    /\ cmd' = r.cmds
    /\ scn' = scnNext
    /\ scnWrote' = (scnWrote \/ (scnNext > 0 /\ "brightness" \in r.applied))
    /\ handled' = [kind |-> "LightUpdateMsg", id |-> msg.LightID,
                   ct |-> msg.ColorTemp, xy |-> msg.ColorXY, updated |-> r.updated]

\* listenForEvents returns msg and case messages.LightUpdateMsg handles it.
LightUpdate(msg) ==
    /\ events < MaxEvents
    /\ events' = events + 1
    /\ LightUpdateHandled(msg, UpdateLightUpdateMsg(lights, rooms, ops, now, err, msg),
                          ScnAfterEvent(msg))
    /\ listeners > 0
    /\ listeners' = listeners - 1 + Armed(cmd')
    /\ UNCHANGED <<started, configVars, scanned, streamVars, now, trackerVars, selectedIndex, keys, loading, failed>>

\* case "r": the key sets loading and returns a RefreshMsg.
KeyRefresh ==
    /\ keys < MaxKeys
    /\ keys' = keys + 1
    /\ loading' = TRUE
    /\ cmd' = <<RefreshMsgCmd>>
    /\ scn' = ScnLeft
    /\ handled' = [NoHandled EXCEPT !.kind = "key", !.id = "r"]
    /\ UNCHANGED <<listenVars, configVars, scanned, streamVars, now, ops, trackerVars, lights, rooms, selectedIndex, events,
                   scnWrote, err, failed>>

\* case messages.RefreshMsg: SetLoading(true) and fetchDataCmd.
Refresh ==
    /\ RefreshMsgCmd \in Range(cmd)
    /\ loading' = TRUE
    /\ cmd' = <<FetchDataCmd>>
    /\ scn' = ScnLeft
    /\ handled' = [NoHandled EXCEPT !.kind = "RefreshMsg"]
    /\ UNCHANGED <<listenVars, configVars, scanned, streamVars, now, ops, trackerVars, lights, rooms, selectedIndex, keys, events,
                   scnWrote, err, failed>>

\* The fetch task of a refresh returns msg, and Update handles it.
DataFetched(msg) ==
    /\ FetchDataCmd \in Range(cmd)
    /\ LET r == UpdateDataFetchedMsg(lights, rooms, selectedIndex, msg) IN
        /\ lights' = r.lights
        /\ rooms' = r.rooms
        /\ selectedIndex' = r.selectedIndex
        /\ loading' = r.loading
    /\ ops' = DataFetchedPending(ops)
    /\ cmd' = DataFetchedCmds(started)
    /\ sub' = IF started THEN sub ELSE NewEventSubscription
    /\ started' = TRUE
    /\ listeners' = listeners + Armed(cmd')
    /\ scn' = ScnLeft
    /\ handled' = [NoHandled EXCEPT !.kind = "DataFetchedMsg"]
    /\ UNCHANGED <<configVars, scanned, ctxDone, deliveries, eventChan, inflight, lineNo,
                   processed, waited, now, trackerVars, keys, events, scnWrote, err, failed>>

\* A bridge command task of the latest Update fails and returns an ErrorMsg.
CmdFails ==
    /\ failed < MaxErrors
    /\ \E i \in 1..Len(cmd) : cmd[i] \notin {ListenForEventsCmd, RefreshMsgCmd}
    /\ failed' = failed + 1
    /\ UNCHANGED <<listenVars, configVars, scanned, streamVars, now, ops, trackerVars, lights, rooms, selectedIndex, cmd, keys,
                   events, scn, scnWrote, err, loading, handled>>

\* case messages.ErrorMsg
Error ==
    /\ failed > 0
    /\ failed' = failed - 1
    /\ LET r == UpdateErrorMsg(lights, rooms, ops, "command failed") IN
        /\ lights' = r.lights
        /\ rooms' = r.rooms
        /\ ops' = r.ops
        /\ err' = r.err
        /\ loading' = r.loading
    /\ cmd' = << >>
    /\ scn' = ScnLeft
    /\ handled' = [NoHandled EXCEPT !.kind = "ErrorMsg"]
    /\ UNCHANGED <<listenVars, configVars, scanned, streamVars, now, trackerVars, selectedIndex, keys, events, scnWrote>>

\* The loop sits idle until every pending op has expired.
Idle ==
    /\ now + pendingOpExpiry + 1 <= MaxTime
    /\ now' = now + pendingOpExpiry + 1
    /\ cmd' = << >>
    /\ scn' = ScnLeft
    /\ handled' = [NoHandled EXCEPT !.kind = "idle"]
    /\ UNCHANGED <<listenVars, configVars, scanned, streamVars, ops, trackerVars, lights, rooms, selectedIndex, keys, events,
                   scnWrote, uiVars>>

\* The view draws the color swatch of every light that is on and has a
\* Color; drawing calls Color.RGB, which fills the cache.
Rendered(ls) ==
    [id \in DOMAIN ls |->
        IF ~ls[id].Color.nil /\ ls[id].On
        THEN [ls[id] EXCEPT !.Color = AfterRGB(@)]
        ELSE ls[id]]

Render ==
    /\ lights' = Rendered(lights)
    /\ lights' # lights
    /\ UNCHANGED <<listenVars, configVars, scanned, streamVars, now, ops, trackerVars, rooms, selectedIndex,
                   keys, events, scn, scnWrote, cmd, handled, uiVars>>

NextLoop ==
    \/ KeyUp
    \/ KeyDown
    \/ KeyRight
    \/ \E msg \in EventMsgs : LightUpdate(msg)
    \/ Idle

SpecLoop == InitLoop /\ [][NextLoop]_vars

(***************************************************************************)
(* The loop on three rooms: switching lights and rooms on and off, the      *)
(* on/off events of the bridge, and commands that fail.                     *)
(***************************************************************************)
\* A room of two lights, a room of one light and a room without lights.
HouseRooms == <<Room("r1", <<"l1", "l2">>, "g1"), Room("r2", <<"l3">>, "g2"),
                Room("r3", << >>, "g3")>>

\* On/off events for every light, and an event for an unknown light.
OnOffMsgs ==
    {LightUpdateMsg(id, Some(on), None, None, None) : id \in LightIDs, on \in BOOLEAN}
    \cup {UnknownLightMsg}

\* What a refresh can fetch from the bridge: every light at 10% or at 70%
\* and on or off, the rooms in either order.
Snapshots ==
    {[id \in {"l1", "l2", "l3"} |-> PlainBulb(on, pct)] : on \in BOOLEAN, pct \in {10, 70}}

FetchedMsgs ==
    {DataFetchedMsg(FetchAll(rs, ls), ls) :
        rs \in {HouseRooms, <<HouseRooms[3], HouseRooms[2], HouseRooms[1]>>},
        ls \in Snapshots}

\* Every light at 10%, each on or off.
InitHouse ==
    /\ InitTracker
    /\ \E on \in [{"l1", "l2", "l3"} -> BOOLEAN] :
          InitModel(HouseRooms, [id \in {"l1", "l2", "l3"} |-> PlainBulb(on[id], 10)])

NextHouse ==
    \/ KeyUp
    \/ KeyDown
    \/ keys + events < MaxHouseSteps /\ KeyLeft
    \/ keys + events < MaxHouseSteps /\ KeyRight
    \/ keys + events < MaxHouseSteps /\ KeySpace
    \/ keys + events < MaxHouseSteps /\ KeyDigit("1")
    \/ keys + events < MaxHouseSteps /\ KeyAllOn
    \/ keys + events < MaxHouseSteps /\ KeyAllOff
    \/ keys + events < MaxHouseSteps /\ KeyRefresh
    \/ keys + events < MaxHouseSteps /\ \E msg \in OnOffMsgs : LightUpdate(msg)
    \/ Refresh
    \/ \E msg \in FetchedMsgs : DataFetched(msg)
    \/ CmdFails
    \/ Error

SpecHouse == InitHouse /\ [][NextHouse]_vars

(***************************************************************************)
(* The loop on one color bulb: the color temperature keys, the hue key and  *)
(* the color events of the bridge.                                          *)
(***************************************************************************)
ColorMsgs ==
    {LightUpdateMsg("l1", None, None, ct, xy) : ct \in ColorTempEchoes, xy \in ColorXYEchoes}

InitColor == InitTracker /\ InitModel(LoopRooms, [id \in {"l1"} |-> ColorBulb(TRUE, 50)])

NextColor ==
    \/ KeyDown
    \/ keys + events < MaxColorSteps /\ KeyWarmer
    \/ keys + events < MaxColorSteps /\ KeyCooler
    \/ keys + events < MaxColorSteps /\ KeyHueUp
    \/ keys + events < MaxColorSteps /\ \E msg \in ColorMsgs : LightUpdate(msg)
    \/ Idle

SpecColor == InitColor /\ [][NextColor]_vars

(***************************************************************************)
(* Demo mode: the bridge is a DemoBridge, whose FetchAll returns the Room   *)
(* and Light objects it keeps itself, so Model.rooms and the bridge share   *)
(* them.  The commands of a key run as tasks beside the loop; a task that   *)
(* has not run when the next Update returns is left out.                    *)
(***************************************************************************)
\* DemoBridge.updateRoomStates
updateRoomStates(rs, ls) == [i \in 1..Len(rs) |-> UpdateState(rs[i], ls)]

\* DemoBridge.SetLightOn
DemoSetLightOn(ls, rs, lightID, on) ==
    IF lightID \in DOMAIN ls
    THEN [lights |-> [ls EXCEPT ![lightID].On = on],
          rooms |-> updateRoomStates(rs, [ls EXCEPT ![lightID].On = on])]
    ELSE [lights |-> ls, rooms |-> rs]

\* DemoBridge.SetLightBrightness
DemoSetLightBrightness(ls, rs, lightID, brightness) ==
    IF lightID \in DOMAIN ls
    THEN [lights |->
            [ls EXCEPT ![lightID] =
                IF ls[lightID].Color.nil THEN SetBrightnessPct(ls[lightID], brightness)
                ELSE [SetBrightnessPct(ls[lightID], brightness)
                         EXCEPT !.Color.Brightness =
                                    SetBrightnessPct(ls[lightID], brightness).Brightness,
                                !.Color.cacheValid = FALSE]],
          rooms |-> rs]
    ELSE [lights |-> ls, rooms |-> rs]

\* The first room whose grouped light is groupedLightID, 0 if there is none.
RECURSIVE FindGroup(_, _, _)
FindGroup(rs, groupedLightID, i) ==
    IF i > Len(rs) THEN 0
    ELSE IF rs[i].GroupedLightID = groupedLightID THEN i
    ELSE FindGroup(rs, groupedLightID, i + 1)

\* DemoBridge.SetGroupedLightOn
DemoSetGroupedLightOn(ls, rs, groupedLightID, on) ==
    IF FindGroup(rs, groupedLightID, 1) = 0 THEN [lights |-> ls, rooms |-> rs]
    ELSE [lights |-> [id \in DOMAIN ls |->
                        IF id \in Range(rs[FindGroup(rs, groupedLightID, 1)].Lights)
                        THEN [ls[id] EXCEPT !.On = on] ELSE ls[id]],
          rooms |-> [rs EXCEPT ![FindGroup(rs, groupedLightID, 1)] =
                        UpdateState(@, [id \in DOMAIN ls |->
                            IF id \in Range(rs[FindGroup(rs, groupedLightID, 1)].Lights)
                            THEN [ls[id] EXCEPT !.On = on] ELSE ls[id]])]]

\* The bridge call of command c.
DemoCall(ls, rs, c) ==
    CASE c.cmd = "toggleLight" -> DemoSetLightOn(ls, rs, c.id, c.on)
      [] c.cmd = "setBrightness" -> DemoSetLightBrightness(ls, rs, c.id, c.n)
      [] c.cmd = "setGroupOn" -> DemoSetGroupedLightOn(ls, rs, c.id, c.on)

\* The sequence s without its element i.
Without(s, i) == SubSeq(s, 1, i - 1) \o SubSeq(s, i + 1, Len(s))

\* The task of command i of the latest Update calls the bridge.
DemoTask(i) ==
    /\ cmd[i].cmd \in {"toggleLight", "setBrightness", "setGroupOn"}
    /\ lights' = DemoCall(lights, rooms, cmd[i]).lights
    /\ rooms' = DemoCall(lights, rooms, cmd[i]).rooms
    /\ cmd' = Without(cmd, i)
    /\ scn' = ScnLeft
    /\ handled' = [NoHandled EXCEPT !.kind = "task", !.id = cmd[i].cmd]
    /\ UNCHANGED <<listenVars, configVars, scanned, streamVars, now, ops, trackerVars, selectedIndex, keys, events, scnWrote, uiVars>>

InitDemo == InitHouse

NextDemo ==
    \/ KeyUp
    \/ KeyDown
    \/ keys + events < MaxHouseSteps /\ KeyLeft
    \/ keys + events < MaxHouseSteps /\ KeyRight
    \/ keys + events < MaxHouseSteps /\ KeySpace
    \/ keys + events < MaxHouseSteps /\ KeyAllOn
    \/ keys + events < MaxHouseSteps /\ KeyAllOff
    \/ \E i \in 1..Len(cmd) : DemoTask(i)

SpecDemo == InitDemo /\ [][NextDemo]_vars

(***************************************************************************)
(* The event stream: the run task of the EventSubscription, the batch and   *)
(* its timer, the deliverBatch calls, eventChan and the loop that listens.  *)
(***************************************************************************)

\* One record of an envelope's data array.  bad: a member of the record has
\* a JSON type its struct field cannot take (a number for "id", a string
\* for "on"), so that json.Unmarshal reports an UnmarshalTypeError.
\* Dimming is the brightness in tenths of a percent.
Record(id, type, bad, on, dimming) ==
    [ID |-> id, Type |-> type, bad |-> bad, On |-> on, Dimming |-> dimming,
     ColorTemperature |-> None, Color |-> None]

\* One element of rawEvents: the type tag and the data records.
Envelope(type, data) == [Type |-> type, Data |-> data]

\* An SSE data payload: text that is not JSON, a JSON value that is not an
\* array, or an array of envelopes.
TextPayload == [kind |-> "text", envelopes |-> << >>]
ObjectPayload == [kind |-> "object", envelopes |-> << >>]
ArrayPayload(envelopes) == [kind |-> "array", envelopes |-> envelopes]

\* json.Unmarshal(message, &rawEvents) returns an error: a syntax error, a
\* value that is not an array, or a type error anywhere in the array (the
\* decoder goes on after a type error and returns the first one at the end).
UnmarshalFails(p) ==
    \/ p.kind # "array"
    \/ \E i \in 1..Len(p.envelopes) :
          \E j \in 1..Len(p.envelopes[i].Data) : p.envelopes[i].Data[j].bad

\* Event{Type, ResourceID, Resource, Data}; Data is the record marshalled
\* again.
Event(eventType, data) ==
    [Type |-> eventType, ResourceID |-> data.ID, Resource |-> data.Type, Data |-> data]

\* The loops of parseMessage over rawEvents, from envelope i on.
RECURSIVE EventsOf(_, _)
EventsOf(envelopes, i) ==
    IF i > Len(envelopes) THEN << >>
    ELSE [j \in 1..Len(envelopes[i].Data) |->
             Event(envelopes[i].Type, envelopes[i].Data[j])]
         \o EventsOf(envelopes, i + 1)

\* EventSubscription.parseMessage; nil is the empty sequence.
parseMessage(p) ==
    IF UnmarshalFails(p) THEN << >> ELSE EventsOf(p.envelopes, 1)

NoLightUpdateEvent == [ID |-> "", On |-> None, Brightness |-> None, ColorTemp |-> None,
                       ColorXY |-> None]

\* ParseLightUpdate: the error and the LightUpdateEvent.
ParseLightUpdate(event) ==
    IF event.Resource # "light" THEN [err |-> TRUE, update |-> NoLightUpdateEvent]
    ELSE [err |-> FALSE,
          update |-> [ID |-> event.Data.ID, On |-> event.Data.On,
                      Brightness |-> event.Data.Dimming,
                      ColorTemp |-> event.Data.ColorTemperature,
                      ColorXY |-> event.Data.Color]]

\* The LightUpdateMsg the handler makes of the LightUpdateEvent u:
\* int(*update.Brightness).
HandlerMsg(u) ==
    LightUpdateMsg(u.ID, u.On,
                   IF u.Brightness = None THEN None ELSE Some(u.Brightness[1] \div 10),
                   u.ColorTemp, u.ColorXY)

\* The n-th event the bridge writes: a dimming update of l1, its brightness
\* a percentage in tenths (10.5, 21.0, 31.5, ...).
StreamEvent(n) == Record("l1", "light", FALSE, None, Some(105 * n))

StreamPayload(n) == ArrayPayload(<<Envelope("update", <<StreamEvent(n)>>)>>)

\* cap(Model.eventChan)
eventChanCap == 100

\* Mutant of Send: on a full channel the oldest message makes room for msg.
Send_DropsOldest(ch, msg) ==
    IF Len(ch) < eventChanCap THEN Append(ch, msg) ELSE Append(Tail(ch), msg)

\* select { case m.eventChan <- msg: default: }
Send(ch, msg) == IF Len(ch) < eventChanCap THEN Append(ch, msg) ELSE ch

\* Mutant of the handler: a light event of any type is sent.
Handler_AnyType(ch, e) ==
    IF e.Resource = "light"
    THEN IF ~ParseLightUpdate(e).err
         THEN Send(ch, HandlerMsg(ParseLightUpdate(e).update))
         ELSE ch
    ELSE ch

\* The handler of the subscription on one event: only a light update is
\* parsed and sent.
Handler(ch, e) ==
    IF e.Resource = "light" /\ e.Type = "update"
    THEN IF ~ParseLightUpdate(e).err
         THEN Send(ch, HandlerMsg(ParseLightUpdate(e).update))
         ELSE ch
    ELSE ch

\* Stop(): running and done, and the response body if there is one.
Stop ==
    /\ sub.running
    /\ sub' = StopSub(sub)
    /\ UNCHANGED <<listenVars, configVars, scanned, loopVars, ctxDone, deliveries, eventChan, inflight, lineNo, processed,
                   waited>>

\* m.cancel()
Cancel ==
    /\ ~ctxDone
    /\ ctxDone' = TRUE
    /\ UNCHANGED <<listenVars, configVars, scanned, loopVars, sub, deliveries, eventChan, inflight, lineNo, processed,
                   waited>>

\* run, the select at the top of the loop, and connect begun.
RunTop ==
    /\ sub.pc = "top"
    /\ IF ctxDone \/ sub.done
       THEN sub' = [sub EXCEPT !.pc = "exited"] /\ waited' = waited
       ELSE sub' = [sub EXCEPT !.pc = "connect"] /\ waited' = FALSE
    /\ UNCHANGED <<listenVars, configVars, scanned, loopVars, ctxDone, deliveries, eventChan, inflight, lineNo, processed>>

\* connect returns an error: the request failed or the status was not 200.
ConnectFails ==
    /\ sub.pc = "connect"
    /\ sub' = [sub EXCEPT !.pc = "wait"]
    /\ UNCHANGED <<listenVars, configVars, scanned, loopVars, ctxDone, deliveries, eventChan, inflight, lineNo, processed,
                   waited>>

\* connect returns nil: s.resp is the response.
ConnectSucceeds ==
    /\ sub.pc = "connect"
    /\ sub' = [sub EXCEPT !.pc = "readLoop", !.resp = "open"]
    /\ UNCHANGED <<listenVars, configVars, scanned, loopVars, ctxDone, deliveries, eventChan, inflight, lineNo, processed,
                   waited>>

\* run, case <-time.After(5 * time.Second)
WaitElapsed ==
    /\ sub.pc = "wait"
    /\ sub' = [sub EXCEPT !.pc = "top"]
    /\ waited' = TRUE
    /\ UNCHANGED <<listenVars, configVars, scanned, loopVars, ctxDone, deliveries, eventChan, inflight, lineNo, processed>>

\* run, case <-ctx.Done() and case <-s.done of the wait
WaitInterrupted ==
    /\ sub.pc = "wait"
    /\ ctxDone \/ sub.done
    /\ sub' = [sub EXCEPT !.pc = "exited"]
    /\ UNCHANGED <<listenVars, configVars, scanned, loopVars, ctxDone, deliveries, eventChan, inflight, lineNo, processed,
                   waited>>

\* readLoop up to its first scanner.Scan()
ReadLoopStart ==
    /\ sub.pc = "readLoop"
    /\ sub' = [sub EXCEPT !.pc = IF sub.resp = "nil" THEN "lost" ELSE "scan"]
    /\ UNCHANGED <<listenVars, configVars, scanned, loopVars, ctxDone, deliveries, eventChan, inflight, lineNo, processed,
                   waited>>

\* batchEvents: the events appended, the old timer stopped, a new one set.
batchEvents(b, evs) == [b EXCEPT !.eventBatch = b.eventBatch \o evs, !.batchTimer = "set"]

\* Mutant of readLoop: the events are batched even when there are none.
readLoopEvent_AlwaysBatches(b, evs) == batchEvents(b, evs)

\* readLoop at the end of an event: the events of the payload are batched if
\* there are any.
readLoopEvent(b, evs) == IF Len(evs) > 0 THEN batchEvents(b, evs) ELSE b

\* The bridge writes the payload p and scanner.Scan() returns its lines:
\* readLoop returns if ctx or done is closed, and parses the payload and
\* batches its events otherwise.
ScanLine(p) ==
    /\ sub.pc = "scan"
    /\ sub.resp = "open"
    /\ ~ctxDone
    /\ lineNo < MaxLines
    /\ lineNo' = lineNo + 1
    /\ sub' = IF sub.done THEN [sub EXCEPT !.pc = "lost"]
              ELSE readLoopEvent(sub, parseMessage(p))
    /\ scanned' = IF sub.done THEN scanned
                  ELSE [payload |-> p, events |-> parseMessage(p)]
    /\ UNCHANGED <<listenVars, configVars, loopVars, ctxDone, deliveries, eventChan, inflight, processed, waited>>

\* scanner.Scan() returns false because the body was closed or ctx was
\* cancelled.
ScanAborted ==
    /\ sub.pc = "scan"
    /\ sub.resp = "closed" \/ ctxDone
    /\ sub' = [sub EXCEPT !.pc = "lost"]
    /\ UNCHANGED <<listenVars, configVars, scanned, loopVars, ctxDone, deliveries, eventChan, inflight, lineNo, processed,
                   waited>>

\* scanner.Scan() returns false because the connection was lost.
ConnectionLost ==
    /\ sub.pc = "scan"
    /\ sub.resp = "open"
    /\ sub' = [sub EXCEPT !.pc = "lost"]
    /\ UNCHANGED <<listenVars, configVars, scanned, loopVars, ctxDone, deliveries, eventChan, inflight, lineNo, processed,
                   waited>>

\* run after readLoop returned: the response closed and forgotten, and back
\* to the top of the loop.
RunLost ==
    /\ sub.pc = "lost"
    /\ sub' = [sub EXCEPT !.pc = "top", !.resp = "nil"]
    /\ UNCHANGED <<listenVars, configVars, scanned, loopVars, ctxDone, deliveries, eventChan, inflight, lineNo, processed,
                   waited>>

\* The timer of batchEvents fires: its function starts on its own goroutine.
TimerFires ==
    /\ sub.batchTimer = "set"
    /\ sub' = [sub EXCEPT !.batchTimer = "fired"]
    /\ deliveries' = Append(deliveries, [pc |-> "take", batch |-> << >>])
    /\ UNCHANGED <<listenVars, configVars, scanned, loopVars, ctxDone, eventChan, inflight, lineNo, processed, waited>>

\* deliverBatch, under batchMu: the batch taken and eventBatch emptied.
DeliverTake(i) ==
    /\ deliveries[i].pc = "take"
    /\ sub' = [sub EXCEPT !.eventBatch = << >>]
    /\ deliveries' = IF sub.eventBatch = << >> THEN Without(deliveries, i)
                     ELSE [deliveries EXCEPT ![i] = [pc |-> "send", batch |-> sub.eventBatch]]
    /\ UNCHANGED <<listenVars, configVars, scanned, loopVars, ctxDone, eventChan, inflight, lineNo, processed, waited>>

\* The handler, called outside batchMu, sends the next event of its batch.
DeliverSend(i) ==
    /\ deliveries[i].pc = "send"
    /\ eventChan' = Handler(eventChan, Head(deliveries[i].batch))
    /\ deliveries' = IF Len(deliveries[i].batch) = 1 THEN Without(deliveries, i)
                     ELSE [deliveries EXCEPT ![i].batch = Tail(@)]
    /\ UNCHANGED <<listenVars, configVars, scanned, loopVars, sub, ctxDone, inflight, lineNo, processed, waited>>

\* listenForEvents: one is waiting whenever no message is on its way to
\* Update, the first started with the subscription and the next by each
\* LightUpdateMsg handled.
Listen ==
    /\ listeners > 0
    /\ inflight = None
    /\ eventChan # << >>
    /\ inflight' = Some(Head(eventChan))
    /\ eventChan' = Tail(eventChan)
    /\ listeners' = listeners - 1
    /\ UNCHANGED <<started, configVars, scanned, loopVars, sub, ctxDone, deliveries, lineNo, processed, waited>>

\* case messages.LightUpdateMsg, for the message listenForEvents returned
StreamUpdate ==
    /\ inflight # None
    /\ inflight' = None
    /\ processed' = Append(processed, inflight[1])
    /\ events' = events + 1
    /\ LightUpdateHandled(inflight[1],
                          UpdateLightUpdateMsg(lights, rooms, ops, now, err, inflight[1]),
                          ScnLeft)
    /\ listeners' = listeners + Armed(cmd')
    /\ UNCHANGED <<started, configVars, scanned, now, trackerVars, selectedIndex, keys, loading, failed, sub,
                   ctxDone, deliveries, eventChan, lineNo, waited>>

InitStream == InitTracker /\ InitModel(LoopRooms, [id \in {"l1"} |-> PlainBulb(TRUE, 50)])

\* The steps of the run task that the scheduler, the clock and the HTTP
\* client make happen; a line or a loss of the connection is up to the
\* bridge.
RunStep ==
    \/ RunTop
    \/ ConnectFails
    \/ ConnectSucceeds
    \/ WaitElapsed
    \/ WaitInterrupted
    \/ ReadLoopStart
    \/ ScanAborted
    \/ RunLost

NextStream ==
    \/ Stop
    \/ Cancel
    \/ RunTop
    \/ ConnectFails
    \/ ConnectSucceeds
    \/ WaitElapsed
    \/ WaitInterrupted
    \/ ReadLoopStart
    \/ ScanLine(StreamPayload(lineNo + 1))
    \/ ScanAborted
    \/ ConnectionLost
    \/ RunLost
    \/ TimerFires
    \/ \E i \in 1..Len(deliveries) : DeliverTake(i)
    \/ \E i \in 1..Len(deliveries) : DeliverSend(i)
    \/ Listen
    \/ StreamUpdate

SpecStream == InitStream /\ [][NextStream]_vars

(***************************************************************************)
(* The tracker on its own: its calls in any order.                          *)
(***************************************************************************)
Init == InitTracker /\ InitModel(LoopRooms, [id \in {"l1"} |-> ColorBulb(TRUE, 50)])

Next ==
    \/ \E l \in TrackerLights, f \in Fields :
         \E v \in FieldValues(f), d \in FieldDirections(f) : DoAddWithDirection(l, f, v, d)
    \/ \E l \in TrackerLights, f \in Fields : \E v \in FieldValues(f) : DoShouldIgnore(l, f, v)
    \/ \E l \in TrackerLights, f \in Fields : DoHasPending(l, f)
    \/ DoCleanup
    \/ Tick

Spec == Init /\ [][Next]_vars

(***************************************************************************)
(* Properties of the tracker, stated on the call recorded in last.  The     *)
(* clock does not move during a call, so now is the time of the call.       *)
(***************************************************************************)
LastKey == Key(last.light, last.field)

\* The latest step called ShouldIgnore on an entry that had not expired.
IgnoreOnLive == last.fn = "ShouldIgnore" /\ last.had /\ now <= last.pre.ExpiresAt

\* C1: on an unexpired DirUp entry, ShouldIgnore of a value at or below the
\* target returns true; it removes the entry exactly when the value equals
\* the target, and a value below the target leaves the entry as it was.
C1_DirUpIgnoresUpToTarget ==
    (IgnoreOnLive /\ last.pre.Direction = DirUp /\ last.value.n <= last.pre.Target.n)
    => /\ last.ret
       /\ (LastKey \notin DOMAIN ops) <=> (last.value.n = last.pre.Target.n)
       /\ last.value.n < last.pre.Target.n => ops[LastKey] = last.pre

W_C1_IntermediateIgnored ==
    /\ IgnoreOnLive /\ last.pre.Direction = DirUp
    /\ last.value.n < last.pre.Target.n
    /\ last.ret /\ LastKey \in DOMAIN ops

\* C2: on an unexpired DirDown entry, ShouldIgnore of a value at or above the
\* target returns true and removes the entry exactly when the value equals
\* the target.
C2_DirDownIgnoresDownToTarget ==
    (IgnoreOnLive /\ last.pre.Direction = DirDown /\ last.value.n >= last.pre.Target.n)
    => /\ last.ret
       /\ (LastKey \notin DOMAIN ops) <=> (last.value.n = last.pre.Target.n)
       /\ last.value.n > last.pre.Target.n => ops[LastKey] = last.pre

W_C2_IntermediateIgnored ==
    /\ IgnoreOnLive /\ last.pre.Direction = DirDown
    /\ last.value.n > last.pre.Target.n
    /\ last.ret /\ LastKey \in DOMAIN ops

\* C3: on an unexpired entry, a value beyond the target (above it for DirUp,
\* below it for DirDown) is not ignored and deletes the entry; from then on
\* the key has no entry and every ShouldIgnore on it returns false, until
\* AddWithDirection registers the key again.
C3_OvershootEndsSuppression ==
    /\ (last.fn = "ShouldIgnore" /\ last.had /\ Overshoots(last.pre, now, last.value))
       => ~last.ret /\ LastKey \notin DOMAIN ops
    /\ \A k \in overshot : k \notin DOMAIN ops
    /\ (last.fn = "ShouldIgnore" /\ last.wasOvershot) => ~last.ret

W_C3_CallAfterOvershoot ==
    /\ last.fn = "ShouldIgnore" /\ last.wasOvershot /\ ~last.ret

\* C4: AddWithDirection on a key that has an entry replaces it: the entry is
\* the new target and direction with an expiry 5 seconds from now, and from
\* then on ShouldIgnore answers every value at every time as a tracker would
\* that had only seen the second registration.
C4_OverwriteReplaces ==
    (last.fn = "AddWithDirection" /\ last.had)
    => /\ ops[LastKey] = PendingOp(last.field, last.value, last.dir, now + pendingOpExpiry)
       /\ \A v \in FieldValues(last.field), t \in now..MaxTime :
            ShouldIgnore(ops, t, last.light, last.field, v).ret
              = ShouldIgnore(MapPut(NewPendingTracker, LastKey,
                                    PendingOp(last.field, last.value, last.dir,
                                              now + pendingOpExpiry)),
                             t, last.light, last.field, v).ret

W_C4_Overwritten ==
    /\ last.fn = "AddWithDirection" /\ last.had
    /\ last.pre.Target # last.value
    /\ last.pre.Direction # last.dir
    /\ last.pre.ExpiresAt < now + pendingOpExpiry

\* C5: on an unexpired DirExact entry, ShouldIgnore of the target value
\* returns true and deletes the entry, so that a ShouldIgnore of the same
\* value on the same key right after it returns false.
C5_ExactMatchConsumes ==
    (IgnoreOnLive /\ last.pre.Direction = DirExact /\ last.value = last.pre.Target)
    => /\ last.ret
       /\ LastKey \notin DOMAIN ops
       /\ ~ShouldIgnore(ops, now, last.light, last.field, last.value).ret

W_C5_BoolMatched ==
    /\ IgnoreOnLive /\ last.pre.Direction = DirExact
    /\ last.field = "on" /\ last.value = BoolV(TRUE) /\ last.pre.Target = BoolV(TRUE)
    /\ last.ret

\* C6: on an unexpired DirExact entry, ShouldIgnore of a value other than the
\* target returns false and leaves the entry as it was, and a ShouldIgnore of
\* the target value made before the entry expires still returns true.
C6_ExactMismatchKeeps ==
    (IgnoreOnLive /\ last.pre.Direction = DirExact /\ last.value # last.pre.Target)
    => /\ ~last.ret
       /\ LastKey \in DOMAIN ops /\ ops[LastKey] = last.pre
       /\ \A t \in now..last.pre.ExpiresAt :
            ShouldIgnore(ops, t, last.light, last.field, last.pre.Target).ret

W_C6_Mismatch ==
    /\ IgnoreOnLive /\ last.pre.Direction = DirExact
    /\ last.value # last.pre.Target
    /\ LastKey \in DOMAIN ops

\* C7: ShouldIgnore on an entry whose ExpiresAt is in the past returns false
\* for every value and deletes the entry; every registration expires 5
\* seconds after it is made, and ShouldIgnore returns true only on an entry
\* that has not expired.
C7_ExpiredIsAbsent ==
    /\ (last.fn = "ShouldIgnore" /\ last.had /\ now > last.pre.ExpiresAt)
       => ~last.ret /\ LastKey \notin DOMAIN ops
    /\ last.fn = "AddWithDirection" => ops[LastKey].ExpiresAt = now + pendingOpExpiry
    /\ (last.fn = "ShouldIgnore" /\ last.ret) => last.had /\ now <= last.pre.ExpiresAt

W_C7_ExpiredEvicted ==
    /\ last.fn = "ShouldIgnore" /\ last.had /\ now > last.pre.ExpiresAt
    /\ \/ last.pre.Direction = DirUp /\ last.value.n < last.pre.Target.n
       \/ last.pre.Direction = DirExact /\ last.value = last.pre.Target
    /\ ~last.ret

\* C8: on an unexpired DirExact entry with an XY target, ShouldIgnore returns
\* true for an incoming pair within the tolerance of the target, (0.1638,
\* 0.0835) against (0.163766, 0.0835), and false for one outside it, against
\* (0.41, 0.18).
C8_XYWithinTolerance ==
    (IgnoreOnLive /\ last.pre.Direction = DirExact
        /\ last.pre.Target = XYV(163800, 83500))
    => /\ last.value = XYV(163766, 83500) => last.ret
       /\ last.value = XYV(410000, 180000) => ~last.ret

\* C9: HasPending returns true exactly when the key has an entry that has not
\* expired, and then leaves the entry as it is, so that a ShouldIgnore of the
\* target value right after it finds the entry; on an expired entry it
\* returns false and removes the entry.
C9_HasPendingPeeks ==
    last.fn = "HasPending"
    => /\ last.ret <=> (last.had /\ now <= last.pre.ExpiresAt)
       /\ last.ret => /\ LastKey \in DOMAIN ops /\ ops[LastKey] = last.pre
                      /\ ShouldIgnore(ops, now, last.light, last.field,
                                      last.pre.Target).ret
       /\ (last.had /\ now > last.pre.ExpiresAt) => LastKey \notin DOMAIN ops

W_C9_PendingSeen ==
    /\ last.fn = "HasPending" /\ last.ret
    /\ LastKey \in DOMAIN ops

(***************************************************************************)
(* Properties of the update loop.                                           *)
(***************************************************************************)
\* C10: from a light on at 50%, after three "right" presses in a row and then
\* the brightness events 55, 65, 75, 80 in that order, none of the four
\* events has written the light's brightness and the light is at 80%.
C10_RapidBrightenEchoesIgnored ==
    scn = 3 + Len(ScenarioEchoes)
    => ~scnWrote /\ BrightnessPct(lights["l1"]) = 80

(***************************************************************************)
(* Properties of the rooms, the errors and the unknown lights.              *)
(***************************************************************************)
\* AllOn and AnyOn of room r are what the On states of its lights give, an
\* empty room counting as all on and none on.
RoomDerived(r) ==
    /\ r.AllOn = (\A id \in Range(r.Lights) : lights[id].On)
    /\ (~r.AnyOn) = (\A id \in Range(r.Lights) : ~lights[id].On)

C13_KeyKeepsRoomDerived ==
    [][keys' = keys + 1
       => \A i \in 1..Len(rooms) :
             (\E id \in Range(rooms[i].Lights) : lights'[id].On # lights[id].On)
             => /\ rooms'[i].AllOn = (\A id \in Range(rooms[i].Lights) : lights'[id].On)
                /\ rooms'[i].AnyOn = (\E id \in Range(rooms[i].Lights) : lights'[id].On)]_vars

\* C18: handling an ErrorMsg sets the error and clears loading, and leaves
\* every light, every room and every pending op as they were.
C18_ErrorKeepsState ==
    [][failed' = failed - 1
       => /\ lights' = lights /\ rooms' = rooms /\ ops' = ops
          /\ err' = "command failed" /\ ~loading']_vars

\* An ErrorMsg was handled while an optimistic write was pending.
W_C18_ErrorWithPending ==
    /\ handled.kind = "ErrorMsg" /\ err = "command failed"
    /\ DOMAIN ops # {}
    /\ \E id \in DOMAIN lights : lights[id].Brightness # 25

\* C20: a LightUpdateMsg for a light id no room holds changes no light, no
\* room, no pending op and no error, and returns listenForEvents.
C20_UnknownLightDropped ==
    [][events' = events + 1 /\ handled'.id \notin LightIDs
       => /\ lights' = lights /\ rooms' = rooms /\ ops' = ops /\ err' = err
          /\ ListenForEventsCmd \in Range(cmd')]_vars

\* An event for an unknown light was handled while ops were pending.
W_C20_UnknownHandled ==
    /\ handled.kind = "LightUpdateMsg" /\ handled.id \notin LightIDs
    /\ DOMAIN ops # {}


(***************************************************************************)
(* Properties of the color modes, on the color bulb l1.                     *)
(***************************************************************************)
\* The step handles a LightUpdateMsg that carries a color_temp value.
ColorTempEvent == events' = events + 1 /\ handled'.ct # None

InRange(v) == v >= 153 /\ v <= 500

\* An op of l1 for field that has not expired.
LivePending(field) == HasPending(ops, now, "l1", field).ret

\* The step sets Mirek to the color_temp value of the message and, unless
\* the message also carries color_xy, the mode to ColorTemp.
ColorTempApplied ==
    /\ lights'["l1"].Color.Mirek = handled'.ct[1]
    /\ handled'.xy = None => lights'["l1"].Color.Mode = ColorModeColorTemp

\* C11 as stated: after a color temperature key pressed while a color_xy op
\* was pending, every in-range color_temp value is ignored while the
\* color_xy op exists, and applied once it is gone.
C11_AppliedOnceXYCleared ==
    [][ColorTempEvent /\ InRange(handled'.ct[1]) /\ scn \in {21, 22}
       => IF LivePending("color_xy") THEN lights' = lights
          ELSE ColorTempApplied]_vars

\* C11 amended: after a color temperature key pressed while a color_xy op
\* was pending, every in-range color_temp value is ignored while the
\* color_xy op exists; once it is gone the value is ignored if ShouldIgnore
\* says so for the pending color_temp op, and applied otherwise.
C11_OrdinaryRuleOnceXYCleared ==
    [][ColorTempEvent /\ InRange(handled'.ct[1]) /\ scn \in {21, 22}
       => IF LivePending("color_xy") THEN lights' = lights
          ELSE IF ShouldIgnore(ops, now, "l1", "color_temp", IntV(handled'.ct[1])).ret
               THEN lights' = lights
               ELSE ColorTempApplied]_vars

\* After the color_xy op was cleared, color_temp 300 was applied to l1.
W_C11_AppliedAfterXYCleared ==
    /\ scn = 22
    /\ handled.kind = "LightUpdateMsg" /\ handled.ct = Some(300) /\ handled.updated
    /\ lights["l1"].Color.Mirek = 300
    /\ lights["l1"].Color.Mode = ColorModeColorTemp

\* C19: a color_temp value below 153 or above 500 leaves Mirek as it was,
\* leaves the whole light as it was when the message carries no color_xy,
\* and leaves a pending color_temp op as it was.
C19_OutOfRangeDropped ==
    [][ColorTempEvent /\ ~InRange(handled'.ct[1])
       => /\ lights'["l1"].Color.Mirek = lights["l1"].Color.Mirek
          /\ handled'.xy = None => lights' = lights
          /\ LivePending("color_temp")
             => /\ Key("l1", "color_temp") \in DOMAIN ops'
                /\ ops'[Key("l1", "color_temp")] = ops[Key("l1", "color_temp")]]_vars

\* color_temp 501 was dropped while a color_temp op with a lower target and
\* direction up was pending.
W_C19_OutOfRangeWithPending ==
    /\ handled.kind = "LightUpdateMsg" /\ handled.ct = Some(501) /\ ~handled.updated
    /\ Key("l1", "color_temp") \in DOMAIN ops
    /\ ops[Key("l1", "color_temp")].Direction = DirUp
    /\ lights["l1"].Color.Mirek = 351

(***************************************************************************)
(* Properties of the tasks beside the loop.                                 *)
(***************************************************************************)
\* C14: every change of a Light or a Room of Model.rooms is made by Update
\* handling a key or a LightUpdateMsg, never by a command task.
C14_MutationsOnlyInUpdate ==
    [][lights' # lights \/ rooms' # rooms
       => keys' = keys + 1 \/ events' = events + 1]_vars

(***************************************************************************)
(* Properties of the event stream.                                          *)
(***************************************************************************)
\* C15: Update handles the events of a light in the order the run task read
\* them.  The n-th event of the stream carries a brightness that grows
\* with n.
C15_StreamOrderKept ==
    \A i, j \in 1..Len(processed) :
        i < j => processed[i].Brightness[1] < processed[j].Brightness[1]

\* C16: once Stop was called or the context cancelled, the run task exits
\* or has a step it takes without the bridge writing anything, wherever it
\* is.
C16_StoppedRunGoesOn ==
    (ctxDone \/ sub.done) /\ sub.pc # "exited" => ENABLED RunStep

\* C17: without Stop and without cancellation the run task does not exit,
\* and it begins a connection attempt other than its first only after it
\* sat out the 5 s wait.
C17_BackoffBeforeReconnect ==
    [][/\ ~ctxDone /\ ~sub.done => sub'.pc # "exited"
       /\ sub.pc = "top" /\ sub'.pc = "connect" => waited]_vars

(***************************************************************************)
(* Claims on the starting value of a directional op.                       *)
(***************************************************************************)
\* The first key was "right" on l1, on at 50% with nothing pending: the
\* DirUp op of that press, target 60, has not expired and no event has been
\* handled.  The value before the local command was 50.
AfterFirstRight ==
    /\ scn = 1 /\ keys = 1 /\ events = 0
    /\ LivePending("brightness")
    /\ ops[Key("l1", "brightness")].Direction = DirUp
    /\ ops[Key("l1", "brightness")].Target = IntV(60)

\* A brightness below the starting value 50, the far side of a DirUp op.
FarSideMsg == LightUpdateMsg("l1", None, Some(45), None, None)

ExpiredKeys(m, t) == {k \in DOMAIN m : After(t, m[k].ExpiresAt)}

\* C24 as stated: every pending op is removed once its expiry has passed,
\* with no event or query for its key needed: an op that has expired in a
\* state of the update loop is out of the map after the next step of the
\* loop, whichever step that is.
C24_ExpiredOpsRemoved ==
    [][ExpiredKeys(ops, now) # {} => ExpiredKeys(ops', now') = {}]_vars

(***************************************************************************)
(* The tracker with two lights: the calls of TestPendingTracker_            *)
(* MultipleLights and TestPendingTracker_MultipleFields in any order.       *)
(***************************************************************************)
KeyPairs == {<<"l1", "on">>, <<"l1", "brightness">>, <<"l2", "on">>}

InitKeys == Init

NextKeys ==
    \/ \E p \in KeyPairs :
         \E v \in FieldValues(p[2]), d \in FieldDirections(p[2]) :
            DoAddWithDirection(p[1], p[2], v, d)
    \/ \E p \in KeyPairs : \E v \in FieldValues(p[2]) : DoShouldIgnore(p[1], p[2], v)
    \/ Tick

SpecKeys == InitKeys /\ [][NextKeys]_vars

\* The map m cut down to the key k.
OnlyKey(m, k) == [j \in DOMAIN m \cap {k} |-> m[j]]

\* The key "lightID:field" of the call recorded in c.
CalledKey(c) == c.light \o ":" \o c.field

\* The entries of every key but k are the same before and after the step.
OtherKeysKept(k) ==
    /\ DOMAIN ops \ {k} = DOMAIN ops' \ {k}
    /\ \A j \in DOMAIN ops \ {k} : ops'[j] = ops[j]

\* C28: pending entries are independent per (light, field) key.  A call of
\* AddWithDirection or ShouldIgnore on a key leaves the entry of every other
\* key as it was, its outcome (return value and the key's new entry) is the
\* outcome of the same call on a map that holds that key alone, and
\* ShouldIgnore on a key with no entry returns false and leaves the whole
\* map unchanged.
C28_KeysIndependent ==
    [][LET k == CalledKey(last') IN
       /\ last'.fn \in {"AddWithDirection", "ShouldIgnore"} => OtherKeysKept(k)
       /\ last'.fn = "AddWithDirection"
          => OnlyKey(ops', k) = AddWithDirection(OnlyKey(ops, k), now, last'.light,
                                                 last'.field, last'.value, last'.dir)
       /\ last'.fn = "ShouldIgnore"
          => LET r == ShouldIgnore(OnlyKey(ops, k), now, last'.light, last'.field,
                                   last'.value)
             IN  last'.ret = r.ret /\ OnlyKey(ops', k) = r.ops
       /\ (last'.fn = "ShouldIgnore" /\ ~last'.had) => (~last'.ret /\ ops' = ops)]_vars

\* ShouldIgnore has just matched and deleted the entry of l1:on while l2:on
\* and l1:brightness hold entries.
W_C28_OtherKeysLive ==
    /\ last.fn = "ShouldIgnore" /\ last.light = "l1" /\ last.field = "on"
    /\ last.had /\ last.ret
    /\ DOMAIN ops = {"l2:on", "l1:brightness"}

(***************************************************************************)
(* The Config on its own: AddBridge and RemoveBridge in any order, from the *)
(* empty Config.                                                            *)
(***************************************************************************)
InitConfigOnly ==
    InitTracker /\ InitModel(LoopRooms, [id \in {"l1"} |-> PlainBulb(TRUE, 50)])

NextConfig ==
    \/ \E h \in BridgeHosts, id \in BridgeIDs : DoAddBridge(BridgeConfig(h, "user", id))
    \/ \E id \in BridgeIDs : DoRemoveBridge(id)

SpecConfig == InitConfigOnly /\ [][NextConfig]_vars

\* The BridgeIDs of bs, in order.
IDsOf(bs) == [i \in 1..Len(bs) |-> bs[i].BridgeID]

\* C30: after any sequence of AddBridge and RemoveBridge calls from an empty
\* Config no two entries of Bridges share a BridgeID; AddBridge with an ID
\* already present replaces that entry in place and keeps the count,
\* AddBridge with a new ID appends one entry, and RemoveBridge of an absent
\* ID changes nothing.
C30_BridgeIDsUnique ==
    LET bs == config.Bridges
        pre == configCall.pre
        id == configCall.bridge.BridgeID
        present == \E i \in 1..Len(pre) : pre[i].BridgeID = id
    IN  /\ \A i, j \in 1..Len(bs) : bs[i].BridgeID = bs[j].BridgeID => i = j
        /\ (configCall.fn = "AddBridge" /\ present)
           => /\ Len(bs) = Len(pre)
              /\ \A i \in 1..Len(pre) :
                    bs[i] = IF pre[i].BridgeID = id THEN configCall.bridge ELSE pre[i]
        /\ (configCall.fn = "AddBridge" /\ ~present) => bs = Append(pre, configCall.bridge)
        /\ (configCall.fn = "RemoveBridge" /\ ~present) => bs = pre

\* AddBridge has just replaced the first of three entries by a bridge with
\* the same ID at another address.
W_C30_ReplacedInPlace ==
    /\ configCall.fn = "AddBridge"
    /\ Len(configCall.pre) = 3
    /\ configCall.pre[1].BridgeID = configCall.bridge.BridgeID
    /\ configCall.pre[1].Host # configCall.bridge.Host
    /\ config.Bridges[1] = configCall.bridge

(***************************************************************************)
(* The payloads of the stream: readLoop, parseMessage, the batch and the    *)
(* handler on payloads of every shape.                                      *)
(***************************************************************************)
\* Records of the payloads: lights, a room, a scene, a resource of a kind
\* the program does not know, and a light record with a type error.
LightOff == Record("l1", "light", FALSE, Some(FALSE), None)
LightOn == Record("l1", "light", FALSE, Some(TRUE), None)
BadLight == Record("l1", "light", TRUE, None, None)
RoomRecord == Record("r1", "room", FALSE, None, None)
SceneRecord == Record("s1", "scene", FALSE, None, None)
UnknownRecord == Record("z1", "zigbee_connectivity", FALSE, None, None)

MixedPayload ==
    ArrayPayload(<<Envelope("update", <<LightOff, RoomRecord, UnknownRecord>>),
                   Envelope("add", <<LightOn, SceneRecord>>)>>)

OneBadPayload == ArrayPayload(<<Envelope("update", <<BadLight, LightOff>>)>>)

ParsePayloads ==
    {TextPayload, ObjectPayload, ArrayPayload(<< >>), MixedPayload, OneBadPayload}

InitParse == InitStream

NextParse ==
    \/ RunTop
    \/ ConnectSucceeds
    \/ ReadLoopStart
    \/ \E p \in ParsePayloads : ScanLine(p)
    \/ TimerFires
    \/ \E i \in 1..Len(deliveries) : DeliverTake(i)
    \/ \E i \in 1..Len(deliveries) : DeliverSend(i)
    \/ Listen
    \/ StreamUpdate

SpecParse == InitParse /\ [][NextParse]_vars

\* The record r has no type error.
WellFormedRecord(r) == ~r.bad

\* The envelopes without their malformed records.
WellFormedOnly(envelopes) ==
    [i \in 1..Len(envelopes) |->
        Envelope(envelopes[i].Type, SelectSeq(envelopes[i].Data, WellFormedRecord))]

\* The number of records in the envelopes before the i-th.
RECURSIVE RecordsBefore(_, _)
RecordsBefore(envelopes, i) ==
    IF i <= 1 THEN 0
    ELSE RecordsBefore(envelopes, i - 1) + Len(envelopes[i - 1].Data)

\* evs holds one Event per record of the envelopes, in payload order, with
\* the envelope's type tag and the record's id and resource kind.
OneEventPerRecord(evs, envelopes) ==
    /\ Len(evs) = RecordsBefore(envelopes, Len(envelopes) + 1)
    /\ \A i \in 1..Len(envelopes) :
          \A j \in 1..Len(envelopes[i].Data) :
             LET e == evs[RecordsBefore(envelopes, i) + j] IN
                /\ e.Type = envelopes[i].Type
                /\ e.ResourceID = envelopes[i].Data[j].ID
                /\ e.Resource = envelopes[i].Data[j].Type

\* C25 as stated: parseMessage does not fail a whole payload because one
\* record in it is malformed: the malformed record is dropped and every
\* well-formed record of the payload still yields its Event.
C25_MalformedRecordDropped ==
    scanned.payload.kind = "array"
    => OneEventPerRecord(scanned.events, WellFormedOnly(scanned.payload.envelopes))

\* The step is readLoop processing a payload.
Scanned == lineNo' = lineNo + 1 /\ ~sub.done

\* C26: a payload that is malformed at top level and an empty array both
\* make parseMessage return zero events, and readLoop then hands nothing to
\* the batcher (no event batched, no timer set, no delivery started, nothing
\* sent) and stays in its scan loop.
C26_NothingFromBadPayload ==
    [][(Scanned /\ (scanned'.payload.kind # "array"
                    \/ scanned'.payload.envelopes = << >>))
       => /\ scanned'.events = << >>
          /\ sub' = sub /\ sub'.pc = "scan"
          /\ deliveries' = deliveries /\ eventChan' = eventChan]_vars

\* readLoop has processed a payload that is not JSON as its second, with
\* nothing batched, and is scanning for the next.
W_C26_ReadOnAfterBadPayload ==
    /\ scanned.payload = TextPayload /\ scanned.events = << >>
    /\ lineNo = 2 /\ sub.pc = "scan"
    /\ sub.eventBatch = << >> /\ sub.batchTimer = "nil"

\* C27: for a payload that decodes, parseMessage emits exactly one Event per
\* data record of every envelope, in payload order, with the envelope's type
\* tag and the record's id and resource kind, whatever the kind;
\* ParseLightUpdate returns an error for every event that is not a light
\* event; and the handler turns an event into a LightUpdateMsg exactly when
\* its resource is "light" and its type "update".
C27_OneEventPerRecord ==
    /\ [](~UnmarshalFails(scanned.payload)
          => /\ OneEventPerRecord(scanned.events, scanned.payload.envelopes)
             /\ \A k \in 1..Len(scanned.events) :
                   scanned.events[k].Resource # "light"
                   => ParseLightUpdate(scanned.events[k]).err)
    /\ [][\A i \in 1..Len(deliveries) :
             (deliveries[i].pc = "send" /\ DeliverSend(i))
             => LET e == Head(deliveries[i].batch) IN
                IF e.Resource = "light" /\ e.Type = "update"
                THEN /\ Len(eventChan') = Len(eventChan) + 1
                     /\ eventChan'[Len(eventChan')].LightID = e.ResourceID
                     /\ eventChan'[Len(eventChan')].On = e.Data.On
                ELSE eventChan' = eventChan]_vars

\* The five events of the mixed payload have all been handed to the
\* handler, and Update has handled the one message they made: the update of
\* light l1.
W_C27_MixedPayloadHandled ==
    /\ scanned.payload = MixedPayload /\ Len(scanned.events) = 5
    /\ lineNo = 1 /\ sub.eventBatch = << >> /\ deliveries = << >>
    /\ eventChan = << >> /\ inflight = None
    /\ Len(processed) = 1 /\ processed[1].LightID = "l1" /\ processed[1].On = Some(FALSE)

(***************************************************************************)
(* Claims on the refresh.                                                   *)
(***************************************************************************)
\* C23: receiving DataFetchedMsg replaces the rooms and lights of the model
\* with exactly the fetched snapshot: every light has the values of the
\* message, every room is the room of the message with the aggregates the
\* bridge computed, and no value of the previous model, an optimistic write
\* with its op still pending included, is kept.
C23_SnapshotReplacesModel ==
    [][\A msg \in FetchedMsgs :
          DataFetched(msg)
          => /\ lights' = msg.Lights
             /\ Len(rooms') = Len(msg.Rooms)
             /\ Range(rooms') = Range(msg.Rooms)
             /\ ops' = ops]_vars

\* A refresh has replaced the model while the op of an optimistic brightness
\* write was pending: every light is at the 70% of the snapshot.
W_C23_RefreshedOverOptimistic ==
    /\ handled.kind = "DataFetchedMsg"
    /\ \E k \in DOMAIN ops : ops[k].Field = "brightness" /\ now <= ops[k].ExpiresAt
    /\ \A id \in DOMAIN lights : lights[id] = PlainBulb(lights[id].On, 70)

(***************************************************************************)
(* The color keys, the color events and the view on one color light: the  *)
(* six color keys, color_temp and color_xy updates, and the swatch the     *)
(* view draws with Color.RGB.                                              *)
(***************************************************************************)
MaxPaintSteps == 3

PaintMsgs ==
    {LightUpdateMsg("l1", None, None, ct, xy) :
        ct \in {None, Some(300)}, xy \in {None, Some(<<163800, 83500>>)}}
    \ {LightUpdateMsg("l1", None, None, None, None)}

InitPaint == InitColor

NextPaint ==
    \/ KeyDown
    \/ keys + events < MaxPaintSteps /\ KeyWarmer
    \/ keys + events < MaxPaintSteps /\ KeyCooler
    \/ keys + events < MaxPaintSteps /\ KeyHueDown
    \/ keys + events < MaxPaintSteps /\ KeyHueUp
    \/ keys + events < MaxPaintSteps /\ KeySatDown
    \/ keys + events < MaxPaintSteps /\ KeySatUp
    \/ keys + events < MaxPaintSteps /\ \E msg \in PaintMsgs : LightUpdate(msg)
    \/ Render
    \/ Idle

SpecPaint == InitPaint /\ [][NextPaint]_vars

\* The fields of Color c that Color.RGB converts, and its mode.
ColorFields(c) == <<c.Hue, c.Saturation, c.Brightness, c.Mirek, c.X, c.Y, c.Mode>>

\* A valid cache holds the conversion of the Color's current fields.
CacheFresh ==
    \A id \in DOMAIN lights :
        (~lights[id].Color.nil /\ lights[id].Color.cacheValid)
            => lights[id].Color.cached = ComputeRGB(lights[id].Color)

\* A color key pressed on a selected light that takes it.
ColorTempKeyActs ==
    /\ KeyWarmer \/ KeyCooler
    /\ LightSelected /\ lights[SelectedLight].SupportsColorTemp
    /\ ~lights[SelectedLight].Color.nil

HueSatKeyActs ==
    /\ KeyHueDown \/ KeyHueUp \/ KeySatDown \/ KeySatUp
    /\ LightSelected /\ lights[SelectedLight].SupportsColor
    /\ ~lights[SelectedLight].Color.nil

\* The color fields of msg that the handler applies in the current state.
AppliedColor(msg) ==
    UpdateLightUpdateMsg(lights, rooms, ops, now, err, msg).applied
        \cap {"color_temp", "color_xy"}

\* Every write of color fields leaves the mode of the fields written and an
\* invalid cache; a step that writes none leaves the fields and the mode.
ColorWriteStep ==
    /\ ColorTempKeyActs
        => /\ lights'[SelectedLight].Color.Mode = ColorModeColorTemp
           /\ ~lights'[SelectedLight].Color.cacheValid
    /\ HueSatKeyActs
        => /\ lights'[SelectedLight].Color.Mode = ColorModeHS
           /\ ~lights'[SelectedLight].Color.cacheValid
    /\ \A msg \in PaintMsgs :
        LightUpdate(msg) =>
            /\ "color_xy" \in AppliedColor(msg)
                => /\ lights'["l1"].Color.Mode = ColorModeXY
                   /\ <<lights'["l1"].Color.X, lights'["l1"].Color.Y>> = msg.ColorXY[1]
                   /\ ~lights'["l1"].Color.cacheValid
            /\ AppliedColor(msg) = {"color_temp"}
                => /\ lights'["l1"].Color.Mode = ColorModeColorTemp
                   /\ lights'["l1"].Color.Mirek = msg.ColorTemp[1]
                   /\ ~lights'["l1"].Color.cacheValid
            /\ AppliedColor(msg) = {}
                => ColorFields(lights'["l1"].Color) = ColorFields(lights["l1"].Color)
    /\ \A id \in DOMAIN lights :
        /\ ColorFields(lights'[id].Color) # ColorFields(lights[id].Color)
            => ~lights'[id].Color.cacheValid
        /\ (lights'[id].Color.Hue # lights[id].Color.Hue
            \/ lights'[id].Color.Saturation # lights[id].Color.Saturation)
            => lights'[id].Color.Mode = ColorModeHS
        /\ (lights'[id].Color.X # lights[id].Color.X
            \/ lights'[id].Color.Y # lights[id].Color.Y)
            => lights'[id].Color.Mode = ColorModeXY
        /\ lights'[id].Color.Mirek # lights[id].Color.Mirek
            => \/ lights'[id].Color.Mode = ColorModeColorTemp
               \/ \E msg \in PaintMsgs :
                    LightUpdate(msg) /\ "color_xy" \in AppliedColor(msg)

\* C29: after any sequence of the color keys and of applied color_temp and
\* color_xy updates, the mode of a light's Color names the representation
\* written last and the cache is invalid from the write until the next call
\* of RGB, so a valid cache always holds the conversion of the current fields.
C29_ModeAndCacheFollowWrites == []CacheFresh /\ [][ColorWriteStep]_vars

\* The swatch was drawn, a color key wrote other fields, and the swatch was
\* drawn again from them.
W_C29_RedrawnAfterWrite ==
    /\ keys >= 2
    /\ events >= 1
    /\ lights["l1"].Color.Mode = ColorModeHS
    /\ lights["l1"].Color.cacheValid
    /\ lights["l1"].Color.cached = hsvToRGB(lights["l1"].Color)
    /\ lights["l1"].Color.cached # xyToRGB([lights["l1"].Color EXCEPT !.Brightness = 127])

(***************************************************************************)
(* Light updates with any subset of their four fields, on a color light    *)
(* whose keys have left pending ops in every field.                        *)
(***************************************************************************)
MaxFieldSteps == 3

UpdateFields == {"on", "brightness", "color_temp", "color_xy"}

FieldMsgs ==
    {LightUpdateMsg("l1", on, b, ct, xy) :
        on \in {None, Some(FALSE)}, b \in {None, Some(55)},
        ct \in {None, Some(300), Some(501)}, xy \in {None, Some(<<163800, 83500>>)}}

InitFields == InitColor

NextFields ==
    \/ KeyDown
    \/ keys + events < MaxFieldSteps /\ KeySpace
    \/ keys + events < MaxFieldSteps /\ KeyRight
    \/ keys + events < MaxFieldSteps /\ KeyWarmer
    \/ keys + events < MaxFieldSteps /\ KeyHueUp
    \/ keys + events < MaxFieldSteps /\ \E msg \in FieldMsgs : LightUpdate(msg)
    \/ Idle

SpecFields == InitFields /\ [][NextFields]_vars

\* The field is absent from the message.
Absent(msg, field) ==
    CASE field = "on" -> msg.On = None
      [] field = "brightness" -> msg.Brightness = None
      [] field = "color_temp" -> msg.ColorTemp = None
      [] field = "color_xy" -> msg.ColorXY = None

\* The attribute of light l that the field of a message is written to.
Attribute(l, field) ==
    CASE field = "on" -> <<l.On>>
      [] field = "brightness" -> <<l.Brightness>>
      [] field = "color_temp" -> <<l.Color.Mirek>>
      [] field = "color_xy" -> <<l.Color.X, l.Color.Y>>

\* The pending entry of the field in tracker m, if there is one.
EntryOf(m, field) ==
    IF Key("l1", field) \in DOMAIN m THEN <<m[Key("l1", field)]>> ELSE << >>

KeepsAttribute(field) == Attribute(lights'["l1"], field) = Attribute(lights["l1"], field)

KeepsEntry(field) == EntryOf(ops', field) = EntryOf(ops, field)

\* The handler does not consult the entry of the field: on a tracker without
\* the entry it leaves the same lights and the same entries of the other fields.
NotConsulted(msg, field) ==
    /\ UpdateLightUpdateMsg(lights, rooms, ops, now, err, msg).lights
         = UpdateLightUpdateMsg(lights, rooms, MapDelete(ops, Key("l1", field)),
                                now, err, msg).lights
    /\ MapDelete(UpdateLightUpdateMsg(lights, rooms, ops, now, err, msg).ops,
                 Key("l1", field))
         = UpdateLightUpdateMsg(lights, rooms, MapDelete(ops, Key("l1", field)),
                                now, err, msg).ops

\* C21 as stated: for every LightUpdateMsg, an absent field leaves its
\* attribute as it was, and its pending entry is neither consulted nor changed.
C21_AbsentFieldUntouched ==
    [][\A msg \in FieldMsgs :
        LightUpdate(msg) =>
            \A field \in UpdateFields :
                Absent(msg, field) =>
                    /\ KeepsAttribute(field)
                    /\ NotConsulted(msg, field)
                    /\ KeepsEntry(field)]_vars

\* C21 amended: for every LightUpdateMsg, an absent field leaves its
\* attribute as it was; the pending entry of an absent on or brightness field
\* is neither consulted nor changed; the pending entry of an absent
\* color_temp or color_xy field is read by HasPending, which leaves it as it
\* is while it is live and removes it once it has expired.
C21_AbsentFieldKeepsAttribute ==
    [][\A msg \in FieldMsgs :
        LightUpdate(msg) =>
            \A field \in UpdateFields :
                Absent(msg, field) =>
                    /\ KeepsAttribute(field)
                    /\ field \in {"on", "brightness"}
                        => NotConsulted(msg, field) /\ KeepsEntry(field)
                    /\ field \in {"color_temp", "color_xy"}
                        => EntryOf(ops', field)
                             = IF LivePending(field) THEN EntryOf(ops, field) ELSE << >>]_vars

\* A message without color_temp was handled while the op of the w key was
\* pending: the op is still there, together with a pending brightness op, and
\* the color_xy value the message carried was not applied.
W_C21_AbsentFieldsPending ==
    /\ handled.kind = "LightUpdateMsg"
    /\ handled.ct = None
    /\ handled.xy = Some(<<163800, 83500>>)
    /\ LivePending("color_temp")
    /\ LivePending("brightness")
    /\ lights["l1"].Color.Mode = ColorModeColorTemp
    /\ lights["l1"].Color.X = 457300

(***************************************************************************)
(* The color fields of one LightUpdateMsg against the two pending flags.   *)
(***************************************************************************)
\* The color_temp op of l1 is live and its target is the value n.
PendingTempTarget(n) ==
    /\ LivePending("color_temp")
    /\ ops[Key("l1", "color_temp")].Target = IntV(n)

\* The color fields of msg are handled by the flags read before the step.
ColorFlagsStep(msg) ==
    /\ (msg.ColorXY # None /\ (LivePending("color_xy") \/ LivePending("color_temp")))
        => /\ Attribute(lights'["l1"], "color_xy") = Attribute(lights["l1"], "color_xy")
           /\ lights'["l1"].Color.Mode \in {lights["l1"].Color.Mode, ColorModeColorTemp}
    /\ (msg.ColorXY # None /\ ~LivePending("color_xy") /\ ~LivePending("color_temp"))
        => /\ Attribute(lights'["l1"], "color_xy") = msg.ColorXY[1]
           /\ lights'["l1"].Color.Mode = ColorModeXY
    /\ (/\ msg.ColorXY # None /\ LivePending("color_xy")
        /\ ~ShouldIgnore(ops, now, "l1", "color_xy",
                         XYV(msg.ColorXY[1][1], msg.ColorXY[1][2])).ret)
        => EntryOf(ops', "color_xy") = EntryOf(ops, "color_xy")
    /\ (msg.ColorTemp # None /\ LivePending("color_xy"))
        => /\ Attribute(lights'["l1"], "color_temp") = Attribute(lights["l1"], "color_temp")
           /\ LivePending("color_temp")
                => EntryOf(ops', "color_temp") = EntryOf(ops, "color_temp")
    /\ (/\ msg.ColorTemp # None /\ msg.ColorXY # None
        /\ ~LivePending("color_xy") /\ PendingTempTarget(msg.ColorTemp[1]))
        => /\ EntryOf(ops', "color_temp") = << >>
           /\ lights' = lights

\* C32: within one LightUpdateMsg the color_xy and color_temp flags are read
\* before any color field is processed; color_xy is applied only if neither
\* op was pending then (a non-matching value during a pending color_xy op is
\* ignored and the op kept), color_temp only if no color_xy op was pending,
\* and a message with the color_temp target and a color_xy value has the op
\* cleared and the color_xy value ignored.
C32_ColorFlagsReadOnce ==
    [][\A msg \in ColorMsgs : LightUpdate(msg) => ColorFlagsStep(msg)]_vars

\* The message carried the target of the w key and a color_xy value: the
\* color_temp op is gone and the color_xy value was not applied.
W_C32_TargetClearedXYIgnored ==
    /\ handled.kind = "LightUpdateMsg"
    /\ handled.ct = Some(351)
    /\ handled.xy = Some(<<163800, 83500>>)
    /\ ~handled.updated
    /\ ops = NewPendingTracker
    /\ lights["l1"].Color.Mirek = 351
    /\ lights["l1"].Color.Mode = ColorModeColorTemp
    /\ lights["l1"].Color.X = 457300

(***************************************************************************)
(* A LightUpdateMsg none of whose fields is applied.                       *)
(***************************************************************************)
\* Each field of msg, if present, is ignored by the tracker or dropped, as
\* the tracker and the light stand before the step.
OnIgnored(msg) ==
    msg.On # None
        => ShouldIgnore(ops, now, msg.LightID, "on", BoolV(msg.On[1])).ret

BrightnessIgnored(msg) ==
    msg.Brightness # None
        => ShouldIgnore(ops, now, msg.LightID, "brightness", IntV(msg.Brightness[1])).ret

ColorTempDropped(msg) ==
    msg.ColorTemp # None
        => \/ msg.ColorTemp[1] < 153 \/ msg.ColorTemp[1] > 500
           \/ LivePending("color_xy")
           \/ ShouldIgnore(ops, now, msg.LightID, "color_temp", IntV(msg.ColorTemp[1])).ret

ColorXYDropped(msg) ==
    msg.ColorXY # None => LivePending("color_xy") \/ LivePending("color_temp")

EveryFieldIgnored(msg) ==
    OnIgnored(msg) /\ BrightnessIgnored(msg) /\ ColorTempDropped(msg) /\ ColorXYDropped(msg)

\* Every room that holds light id has, after the step, the AllOn and AnyOn
\* its lights give; every other room is as it was.
RoomsOfRecomputed(id) ==
    \A i \in 1..Len(rooms) :
        IF id \in Range(rooms[i].Lights)
        THEN /\ rooms'[i].AllOn = (\A l \in Range(rooms[i].Lights) : lights'[l].On)
             /\ rooms'[i].AnyOn = (\E l \in Range(rooms[i].Lights) : lights'[l].On)
        ELSE rooms'[i] = rooms[i]

\* C33: a LightUpdateMsg whose present fields are all ignored by the tracker
\* or dropped as invalid changes no Light and no Room (UpdateState is not
\* run); when at least one field is applied, UpdateState runs on the rooms
\* that hold the light.
C33_IgnoredUpdateIsNoOp ==
    [][\A msg \in FieldMsgs :
        LightUpdate(msg) =>
            IF EveryFieldIgnored(msg)
            THEN lights' = lights /\ rooms' = rooms /\ ~handled'.updated
            ELSE RoomsOfRecomputed(msg.LightID) /\ handled'.updated]_vars

\* The space key turned l1 off and left its room saying all on; the echo of
\* the key was ignored and the room still says so.
W_C33_IgnoredEchoLeavesRoom ==
    /\ handled.kind = "LightUpdateMsg"
    /\ ~handled.updated
    /\ ops = NewPendingTracker
    /\ ~lights["l1"].On
    /\ rooms[1].AllOn

(***************************************************************************)
(* A refresh while ops are pending: the keys of one light, the r key, the  *)
(* fetched data and the events of the light.                               *)
(***************************************************************************)
MaxRefreshSteps == 3

\* What the bridge can hold when the refresh fetches it: l1 on or off, at
\* 33% or at 60%.
RefreshSnapshots ==
    {[id \in {"l1"} |-> PlainBulb(on, pct)] : on \in BOOLEAN, pct \in {33, 60}}

RefreshFetchedMsgs == {DataFetchedMsg(FetchAll(LoopRooms, ls), ls) : ls \in RefreshSnapshots}

RefreshEvents ==
    {LightUpdateMsg("l1", on, b, None, None) :
        on \in {None, Some(TRUE), Some(FALSE)}, b \in {None, Some(55), Some(60)}}
    \ {LightUpdateMsg("l1", None, None, None, None)}

InitRefresh == InitTracker /\ InitModel(LoopRooms, [id \in {"l1"} |-> PlainBulb(TRUE, 50)])

NextRefresh ==
    \/ KeyDown
    \/ keys + events < MaxRefreshSteps /\ KeySpace
    \/ keys + events < MaxRefreshSteps /\ KeyRight
    \/ keys + events < MaxRefreshSteps /\ KeyRefresh
    \/ keys + events < MaxRefreshSteps /\ \E msg \in RefreshEvents : LightUpdate(msg)
    \/ Refresh
    \/ \E msg \in RefreshFetchedMsgs : DataFetched(msg)
    \/ Idle

SpecRefresh == InitRefresh /\ [][NextRefresh]_vars

\* What the tracker m at time t says of every event value of l1.
Verdicts(m, t) ==
    [e \in RefreshEvents |->
        <<IF e.On = None THEN FALSE
          ELSE ShouldIgnore(m, t, "l1", "on", BoolV(e.On[1])).ret,
          IF e.Brightness = None THEN FALSE
          ELSE ShouldIgnore(m, t, "l1", "brightness", IntV(e.Brightness[1])).ret>>]

\* C38: handling DataFetchedMsg leaves the pending tracker unchanged, so an
\* op registered before a refresh suppresses the same events of the light
\* after the model was replaced as before, and an event it suppresses leaves
\* the fetched light as it is.
C38_RefreshKeepsPending ==
    [][/\ \A msg \in RefreshFetchedMsgs :
            DataFetched(msg) => ops' = ops /\ Verdicts(ops', now') = Verdicts(ops, now)
       /\ \A msg \in RefreshEvents :
            (LightUpdate(msg) /\ OnIgnored(msg) /\ BrightnessIgnored(msg))
                => lights' = lights]_vars

\* The right key registered its op, the model was replaced by fetched data
\* with l1 at 33%, and the echo 60 of the key was then ignored and confirmed
\* the op.
W_C38_EchoIgnoredAfterRefresh ==
    /\ handled.kind = "LightUpdateMsg"
    /\ ~handled.updated
    /\ keys = 2
    /\ events = 1
    /\ ops = NewPendingTracker
    /\ lights["l1"].Brightness = (33 * 254) \div 100

(***************************************************************************)
(* The order of a key's optimistic write, its pending op and its command.  *)
(***************************************************************************)
\* Tracker m holds at time t a live op of (lightID, field) with this target.
Registered(m, t, lightID, field, target) ==
    /\ Key(lightID, field) \in DOMAIN m
    /\ ~After(t, m[Key(lightID, field)].ExpiresAt)
    /\ m[Key(lightID, field)].Target = target

\* The op of bridge command c is registered in tracker m at time t, for the
\* rooms rs.
CommandRegistered(c, m, t, rs) ==
    CASE c.cmd = "toggleLight" -> Registered(m, t, c.id, "on", BoolV(c.on))
      [] c.cmd = "setBrightness" -> Registered(m, t, c.id, "brightness", IntV(c.n))
      [] c.cmd = "setColorTemp" -> Registered(m, t, c.id, "color_temp", IntV(c.n))
      [] c.cmd = "setColorHS"
           -> Registered(m, t, c.id, "color_xy",
                         XYV(HSToXY(c.n, c.n2)[1], HSToXY(c.n, c.n2)[2]))
      [] c.cmd = "setGroupOn"
           -> \A i \in 1..Len(rs) :
                 rs[i].GroupedLightID = c.id
                    => \A l \in Range(rs[i].Lights) : Registered(m, t, l, "on", BoolV(c.on))
      [] OTHER -> TRUE

\* The step of a key registers an op for every value it writes to a light.
WritesRegistered ==
    \A id \in DOMAIN lights :
        /\ lights'[id].On # lights[id].On
            => Registered(ops', now', id, "on", BoolV(lights'[id].On))
        /\ lights'[id].Brightness # lights[id].Brightness
            => /\ Key(id, "brightness") \in DOMAIN ops'
               /\ Registered(ops', now', id, "brightness", ops'[Key(id, "brightness")].Target)
               /\ lights'[id].Brightness
                    = SetBrightnessPct(lights[id], ops'[Key(id, "brightness")].Target.n).Brightness

\* C31: every key in MainModel.Update writes the light and registers the op
\* of that (light, field) in the same step, the step that returns the bridge
\* command; so whenever a command of a key is outstanding its op is in the
\* tracker, and a LightUpdateMsg, handled in a later step, finds it.
C31_OpRegisteredWithCommand ==
    [][keys' = keys + 1
       => /\ WritesRegistered
          /\ \A i \in 1..Len(cmd') : CommandRegistered(cmd'[i], ops', now', rooms')]_vars

\* The space key on a room: both lights of the room were written, the ops
\* of both are registered and the group command is outstanding.
W_C31_RoomToggleRegistered ==
    /\ handled.kind = "key" /\ handled.id = " "
    /\ cmd = <<SetGroupOnCmd("g1", FALSE)>>
    /\ \A l \in {"l1", "l2"} :
          ~lights[l].On /\ Registered(ops, now, l, "on", BoolV(FALSE))

(***************************************************************************)
(* The listening loop from the start of the program: the first             *)
(* DataFetchedMsg makes and starts the subscription, and the messages of   *)
(* the stream are read from eventChan one at a time.                       *)
(***************************************************************************)

\* The n-th line the bridge writes: a dimming update of l1 for odd n and of
\* a light the model does not hold for even n.
ListenPayload(n) ==
    ArrayPayload(<<Envelope("update",
                            <<Record(IF n % 2 = 0 THEN "l9" ELSE "l1", "light", FALSE, None,
                                     Some(105 * n))>>)>>)

\* NewModel and Init: nothing fetched, no subscription, and fetchDataCmd
\* returned.
InitListen ==
    /\ InitTracker
    /\ InitConfig
    /\ lights = << >>
    /\ rooms = << >>
    /\ selectedIndex = 0
    /\ cmd = <<FetchDataCmd>>
    /\ keys = 0
    /\ events = 0
    /\ scn = 0
    /\ scnWrote = FALSE
    /\ err = ""
    /\ loading = TRUE
    /\ failed = 0
    /\ handled = NoHandled
    /\ sub = Unstarted
    /\ ctxDone = FALSE
    /\ deliveries = << >>
    /\ eventChan = << >>
    /\ inflight = None
    /\ lineNo = 0
    /\ processed = << >>
    /\ waited = TRUE
    /\ scanned = NoScan
    /\ started = FALSE
    /\ listeners = 0

NextListen ==
    \/ \E msg \in RefreshFetchedMsgs : DataFetched(msg)
    \/ KeyRefresh
    \/ Refresh
    \/ RunTop
    \/ ConnectSucceeds
    \/ ReadLoopStart
    \/ ScanLine(ListenPayload(lineNo + 1))
    \/ TimerFires
    \/ \E i \in 1..Len(deliveries) : DeliverTake(i)
    \/ \E i \in 1..Len(deliveries) : DeliverSend(i)
    \/ Listen
    \/ StreamUpdate

SpecListen == InitListen /\ [][NextListen]_vars

\* The listenForEvents commands outstanding: those waiting on eventChan and
\* the one whose message is on its way to Update.
Outstanding == listeners + (IF inflight = None THEN 0 ELSE 1)

\* Before the subscription starts nothing listens; after, exactly one
\* listenForEvents is outstanding, and a queued message is read as soon as
\* none is on its way to Update.
OneListener ==
    /\ ~started => listeners = 0 /\ inflight = None
    /\ started => Outstanding = 1
    /\ started /\ eventChan # << >> /\ inflight = None => ENABLED Listen

\* One is armed when the subscription starts, one by each LightUpdateMsg
\* handled, and none by a DataFetchedMsg handled after the start.
ArmedByStep ==
    /\ ~started /\ started' => listeners' = 1 /\ Armed(cmd') = 1
    /\ StreamUpdate => listeners' = listeners + 1 /\ Armed(cmd') = 1
    /\ started /\ (\E msg \in RefreshFetchedMsgs : DataFetched(msg))
          => listeners' = listeners /\ Armed(cmd') = 0
    /\ Listen => Len(eventChan') = Len(eventChan) - 1

\* C34: once the event subscription has been started exactly one
\* listenForEvents command is outstanding: one is armed when the
\* subscription starts, every LightUpdateMsg handled, for a known light or
\* an unknown one, arms exactly one more, and a later DataFetchedMsg arms
\* none; the queued messages are read one at a time and none is left
\* unread.
C34_OneListenerOutstanding == []OneListener /\ [][ArmedByStep]_vars

\* A DataFetchedMsg was handled after both messages of the stream, one of
\* them for an unknown light, and one listenForEvents is waiting.
W_C34_RefetchedWhileListening ==
    /\ started
    /\ handled.kind = "DataFetchedMsg"
    /\ Len(processed) = 2
    /\ \E i \in 1..Len(processed) : processed[i].LightID = "l9"
    /\ listeners = 1

(***************************************************************************)
(* One EventSubscription under any sequence of Start and Stop calls, with  *)
(* its run task.                                                           *)
(***************************************************************************)

\* close(s.done) on the closed channel panicked: the program is gone.
Panicked == sub.closes > 1

\* Start(ctx)
Start ==
    /\ sub' = StartSub(sub)
    /\ UNCHANGED <<listenVars, configVars, scanned, loopVars, ctxDone, deliveries, eventChan, inflight,
                   lineNo, processed, waited>>

\* Stop() when the subscription is not running
StopIdle ==
    /\ ~sub.running
    /\ sub' = StopSub(sub)
    /\ UNCHANGED <<listenVars, configVars, scanned, loopVars, ctxDone, deliveries, eventChan, inflight,
                   lineNo, processed, waited>>

NextStartStop ==
    /\ ~Panicked
    /\ \/ Start
       \/ Stop
       \/ StopIdle
       \/ RunTop
       \/ ConnectFails
       \/ ConnectSucceeds
       \/ WaitElapsed
       \/ WaitInterrupted
       \/ ReadLoopStart
       \/ ScanLine(StreamPayload(lineNo + 1))
       \/ ScanAborted
       \/ ConnectionLost
       \/ RunLost
       \/ TimerFires
       \/ \E i \in 1..Len(deliveries) : DeliverTake(i)
       \/ \E i \in 1..Len(deliveries) : DeliverSend(i)

SpecStartStop == InitListen /\ [][NextStartStop]_vars

\* C36: over any sequence of Start and Stop calls on one EventSubscription
\* the done channel is closed at most once.
C36_DoneClosedOnce == sub.closes <= 1

\* Start while running starts no run task and Stop while not running
\* changes nothing.
StartStopGuarded ==
    /\ sub.running => StartSub(sub) = sub
    /\ ~sub.running => StopSub(sub) = sub

(***************************************************************************)
(* The batches of the subscription and the order of their events.          *)
(***************************************************************************)

\* The messages the handler has made of the events it was handed, in the
\* order it was handed them: those Update has handled, the one on its way
\* to Update and those still in eventChan.
Handed ==
    processed \o (IF inflight = None THEN << >> ELSE <<inflight[1]>>) \o eventChan

\* C37: the events passed to batchEvents are handed to the handler once
\* each and in the order they were batched, whatever the interleaving of
\* batchEvents, the timers and the deliverBatch calls.  The n-th event
\* batched carries a brightness that grows with n.
C37_HandedInBatchedOrder ==
    \A i, j \in 1..Len(Handed) :
        i < j => Handed[i].Brightness[1] < Handed[j].Brightness[1]

\* No event is handed to the handler twice.
HandedOnce ==
    \A i, j \in 1..Len(Handed) : i # j => Handed[i] # Handed[j]

(***************************************************************************)
(* A burst of events larger than eventChan: the bridge writes one line     *)
(* with more light updates than the channel holds, then keep-alive lines.  *)
(***************************************************************************)

\* One update more than eventChan holds.
FloodSize == eventChanCap + 1

\* The n-th update of the burst: l1 dimmed to 1%, 2%, ..., 100%, 1%.
FloodEvent(n) == Record("l1", "light", FALSE, None, Some(10 * (1 + ((n - 1) % 100))))

\* Line 1 is the burst in one envelope; the lines after it hold no JSON.
FloodPayload(n) ==
    IF n = 1 THEN ArrayPayload(<<Envelope("update", [k \in 1..FloodSize |-> FloodEvent(k)])>>)
    ELSE TextPayload

NextFlood ==
    \/ RunTop
    \/ ConnectSucceeds
    \/ ReadLoopStart
    \/ ScanLine(FloodPayload(lineNo + 1))
    \/ TimerFires
    \/ \E i \in 1..Len(deliveries) : DeliverTake(i)
    \/ \E i \in 1..Len(deliveries) : DeliverSend(i)
    \/ Listen
    \/ StreamUpdate

SpecFlood == InitStream /\ [][NextFlood]_vars

\* eventChan is within its capacity, and a deliverBatch call inside the
\* handler has its next step whatever the channel holds.
NeverBlocks ==
    /\ Len(eventChan) <= eventChanCap
    /\ \A i \in 1..Len(deliveries) : deliveries[i].pc = "send" => ENABLED DeliverSend(i)

\* The handler's send on a full channel leaves the channel as it is and
\* goes on to the next event; on a channel with room it appends.
SendOrDrop ==
    \A i \in 1..Len(deliveries) :
        DeliverSend(i) =>
            /\ Len(eventChan) = eventChanCap => eventChan' = eventChan
            /\ Len(eventChan) < eventChanCap
                  => eventChan' = Append(eventChan, HandlerMsg(ParseLightUpdate(Head(deliveries[i].batch)).update))
            /\ Len(deliveries[i].batch) > 1 => deliveries'[i].batch = Tail(deliveries[i].batch)

\* The messages that entered eventChan reach Update in the order they
\* entered: the sequence of those handled, on their way and queued only
\* grows at its end.
OrderKept ==
    \/ Handed' = Handed
    \/ \E i \in 1..Len(deliveries) : Handed' = Append(Handed, HandlerMsg(ParseLightUpdate(Head(deliveries[i].batch)).update))

\* C35: the handler never blocks on the queue: eventChan holds at most 100
\* messages, a LightUpdateMsg sent when it is full is dropped and the
\* handler goes on, so the deliverBatch call always has a next step, and
\* the messages that were not dropped reach Update in the order they were
\* sent.
C35_FullQueueDrops == []NeverBlocks /\ [][SendOrDrop /\ OrderKept]_vars

\* eventChan was full when the last update of the burst was sent: it was
\* dropped, the delivery is over and the hundred before it are queued in
\* their order.
W_C35_DroppedOnFullQueue ==
    /\ Len(eventChan) = eventChanCap
    /\ processed = << >>
    /\ inflight = None
    /\ lineNo = 1
    /\ sub.eventBatch = << >>
    /\ sub.batchTimer = "fired"
    /\ deliveries = << >>
    /\ \A k \in 1..eventChanCap : eventChan[k].Brightness = Some(k)

====
